---- MODULE Spec2Model ----
(***************************************************************************)
(* A model of the recording session controller (AudioRecordingService)     *)
(* and of the processing pipeline (ProcessingWorkflow with its parent      *)
(* RecordingPage and its child SpeakerIdentification).                     *)
(*                                                                         *)
(* Time is a clock `now` counted in units of 1/TicksPerSecond seconds, so  *)
(* that Math.floor((Date.now() - startTime) / 1000) is a real floor and a  *)
(* timer callback that runs a fraction of a second late is visible.        *)
(***************************************************************************)
EXTENDS Integers, Sequences, FiniteSets

(* ------------------------------ bounds --------------------------------- *)

\* clock units per second
TicksPerSecond == 2
\* the clock of a long session stops at MaxSeconds seconds
MaxSeconds == 5402
\* the clock of the lifecycle specification stops at ShortSeconds seconds
ShortSeconds == 3
\* a timer callback runs at most MaxLate clock units after it is due
MaxLate == 1
\* a long session is started in the first MaxStartAt clock units
MaxStartAt == 1
\* at most MaxSessions output files are allocated by one controller
MaxSessions == 2
\* at most MaxRuns pipeline runs (mounts of ProcessingWorkflow)
MaxRuns == 1
\* a transcription returns at most MaxSpeakers speakers
MaxSpeakers == 2
\* a transcript repeats each of its two sentences at most MaxReps times
MaxReps == 6
\* a sentence of a transcript starts with at most MaxInd indicator words
MaxInd == 3
\* the recordings directory holds MaxAudios audio files
MaxAudios == 2
\* an analysis result has at most MaxActionItems action items
MaxActionItems == 2

(* ------------------------- program constants --------------------------- *)

\* setInterval(..., 1000): one second, in clock units
Interval == TicksPerSecond
\* duration === 70 * 60
WarningAt == 70 * 60
\* duration === 90 * 60
CriticalAt == 90 * 60

Null == -1
NoFile == -1
MaxNow == TicksPerSecond * MaxSeconds
ShortNow == TicksPerSecond * ShortSeconds
SessionIds == 1..MaxSessions
\* Math.random() * 0.8 + 0.1, in percent: two representatives of [10, 90)
AudioLevels == {10, 89}
Backends == {"sox", "rec", "none"}
\* where startRecording may throw after the backend was found
StartFailures == {"none", "createWriteStream", "record", "pipe"}
\* where stopRecording may throw
StopFailures == {"none", "stop", "end"}

(* ----------------------------- variables ------------------------------- *)

VARIABLES
    \* AudioRecordingService fields
    recording,        \* subprocess handle: Null or the session it belongs to
    isRecording,
    startTime,        \* Null or the clock value at start
    audioFile,        \* write stream: Null or the session it belongs to
    currentFileName,  \* NoFile or the timestamp (whole seconds) in the name
    statusInterval,   \* Null or the clock value at which the timer is due
    \* environment of the controller
    now,              \* Date.now(), in clock units
    sessions,         \* number of output files allocated so far
    handlers,         \* sessions whose stream 'error' handler may still fire
    stopSignals,      \* session -> number of recording.stop() calls received
    streamEnds,       \* session -> number of audioFile.end() calls received
    timers,           \* number of setInterval timers that are not cleared
    \* what the last step did, as seen from outside
    emitted,          \* events emitted by the last step, in order
    lastCall,         \* the last operation and its return value
    warnings,         \* timeWarning events emitted since the last successful start
    paused,           \* pauseForUserChoice was called and resumeStatusUpdates not since
    \* RecordingPage
    page,             \* its React state: isProcessing, audioFilePath
    stopPending,      \* handleStopRecording awaits audio.stopRecording()
    \* ProcessingWorkflow, one record per mount
    runs,
    \* SpeakerIdentification of the mounted run: speaker index -> typed name
    speakerNames,
    \* DatabaseService: the meetings saved so far, in order
    database,
    \* TranscriptionService
    transcript,       \* the text of the last transcription
    diarized,         \* the speakers simulateSpeakerDiarization returned for it
    \* the recordings directory
    audioFiles,       \* the audio files in it
    snippetsDir,      \* its subdirectory 'snippets' exists
    snippetFiles,     \* k -> the audio file speaker_k_sample.wav was cut from, or NoPath
    speakersOf,       \* audio file -> the speakers processAudio returned for it
    fileCall          \* the last call that used the directory

ctrlFields == <<recording, isRecording, startTime, audioFile, currentFileName,
                statusInterval>>
ctrlEnv == <<now, sessions, handlers, stopSignals, streamEnds, timers>>
ctrlOut == <<emitted, lastCall, warnings, paused>>
ctrlVars == <<ctrlFields, ctrlEnv, ctrlOut>>
pipeVars == <<page, stopPending, runs, speakerNames, database>>
estVars == <<transcript, diarized>>
fileVars == <<audioFiles, snippetsDir, snippetFiles, speakersOf, fileCall>>
vars == <<ctrlVars, pipeVars, estVars, fileVars>>

(* ------------------------------ helpers -------------------------------- *)

Event(type, level, duration, audioLevel, fileName) ==
    [type |-> type, level |-> level, duration |-> duration,
     audioLevel |-> audioLevel, fileName |-> fileName]

Call(op, success, error, fileName, duration) ==
    [op |-> op, success |-> success, error |-> error,
     fileName |-> fileName, duration |-> duration]

\* Math.floor((Date.now() - this.startTime.getTime()) / 1000)
ElapsedSeconds(t, start) == (t - start) \div TicksPerSecond

\* new Date().toISOString().replace(/[:.]/g, '-').slice(0, 19): the name keeps
\* the whole seconds of the clock and drops the fraction
FileNameAt(t) == t \div TicksPerSecond

\* getAudioLevel
GetAudioLevel(lvl) == IF ~isRecording THEN 0 ELSE lvl

\* getRecordingStatus, lvl standing for Math.random()
GetRecordingStatus(lvl) ==
    [isRecording |-> isRecording,
     duration |-> IF isRecording /\ startTime # Null
                  THEN ElapsedSeconds(now, startTime) ELSE 0,
     audioLevel |-> GetAudioLevel(lvl),
     fileName |-> currentFileName]

\* a variant of TimeWarnings that compares with >= instead of ===
TimeWarningsSince(duration) ==
    IF duration >= WarningAt
    THEN <<Event("recording:timeWarning", "warning", duration, 0, NoFile)>>
    ELSE IF duration >= CriticalAt
    THEN <<Event("recording:timeWarning", "critical", duration, 0, NoFile)>>
    ELSE <<>>

\* the timeWarning events of one timer callback
TimeWarnings(duration) ==
    IF duration = WarningAt
    THEN <<Event("recording:timeWarning", "warning", duration, 0, NoFile)>>
    ELSE IF duration = CriticalAt
    THEN <<Event("recording:timeWarning", "critical", duration, 0, NoFile)>>
    ELSE <<>>

CountLevel(evs, level) ==
    Cardinality({i \in 1..Len(evs) : evs[i].type = "recording:timeWarning"
                                     /\ evs[i].level = level})

Counted(evs) ==
    [warning |-> warnings.warning + CountLevel(evs, "warning"),
     critical |-> warnings.critical + CountLevel(evs, "critical")]

(* ---------------------- AudioRecordingService -------------------------- *)

StoppedEvent ==
    Event("recording:stopped", "none",
          IF startTime # Null THEN ElapsedSeconds(now, startTime) ELSE 0,
          0, currentFileName)

\* the timers left by `if (this.statusInterval) clearInterval(this.statusInterval)`
Cleared == IF statusInterval # Null THEN timers - 1 ELSE timers

\* a variant of StopEffects that forgets `this.recording = null` and
\* `this.audioFile = null`: the handles stay in place
StopEffectsKeepingHandles(fail) ==
    /\ fail = "stop" => recording # Null
    /\ fail = "end" => audioFile # Null
    /\ recording' = recording
    /\ stopSignals' = IF recording # Null /\ fail # "stop"
                      THEN [stopSignals EXCEPT ![recording] = @ + 1]
                      ELSE stopSignals
    /\ audioFile' = audioFile
    /\ streamEnds' = IF audioFile # Null /\ fail = "none"
                     THEN [streamEnds EXCEPT ![audioFile] = @ + 1]
                     ELSE streamEnds
    /\ isRecording' = IF fail = "none" THEN FALSE ELSE isRecording
    /\ startTime' = IF fail = "none" THEN Null ELSE startTime
    /\ currentFileName' = IF fail = "none" THEN NoFile ELSE currentFileName
    /\ statusInterval' = IF fail = "none" THEN Null ELSE statusInterval
    /\ timers' = IF fail = "none" THEN Cleared ELSE timers

\* a variant of StopEffects that forgets clearInterval: the timer stays armed
StopEffectsKeepingTimer(fail) ==
    /\ fail = "stop" => recording # Null
    /\ fail = "end" => audioFile # Null
    /\ recording' = IF fail = "stop" THEN recording ELSE Null
    /\ stopSignals' = IF recording # Null /\ fail # "stop"
                      THEN [stopSignals EXCEPT ![recording] = @ + 1]
                      ELSE stopSignals
    /\ audioFile' = IF fail = "none" THEN Null ELSE audioFile
    /\ streamEnds' = IF audioFile # Null /\ fail = "none"
                     THEN [streamEnds EXCEPT ![audioFile] = @ + 1]
                     ELSE streamEnds
    /\ isRecording' = IF fail = "none" THEN FALSE ELSE isRecording
    /\ startTime' = IF fail = "none" THEN Null ELSE startTime
    /\ currentFileName' = IF fail = "none" THEN NoFile ELSE currentFileName
    /\ statusInterval' = statusInterval
    /\ timers' = timers

\* stopRecording's try block on a recording controller, up to the call that
\* throws: recording.stop() ("stop"), audioFile.end() ("end") or none; the
\* catch returns with the fields as the statements before the throw left them
StopEffects(fail) ==
    /\ fail = "stop" => recording # Null
    /\ fail = "end" => audioFile # Null
    /\ recording' = IF fail = "stop" THEN recording ELSE Null
    /\ stopSignals' = IF recording # Null /\ fail # "stop"
                      THEN [stopSignals EXCEPT ![recording] = @ + 1]
                      ELSE stopSignals
    /\ audioFile' = IF fail = "none" THEN Null ELSE audioFile
    /\ streamEnds' = IF audioFile # Null /\ fail = "none"
                     THEN [streamEnds EXCEPT ![audioFile] = @ + 1]
                     ELSE streamEnds
    /\ isRecording' = IF fail = "none" THEN FALSE ELSE isRecording
    /\ startTime' = IF fail = "none" THEN Null ELSE startTime
    /\ currentFileName' = IF fail = "none" THEN NoFile ELSE currentFileName
    /\ statusInterval' = IF fail = "none" THEN Null ELSE statusInterval
    /\ timers' = IF fail = "none" THEN Cleared ELSE timers

\* the event stopRecording emits when nothing has thrown
StopEvents(fail) == IF fail = "none" THEN <<StoppedEvent>> ELSE <<>>

\* a variant of StartWhileRecording without the early return: the session is
\* started over
StartOverWhileRecording ==
    /\ startTime' = now
    /\ currentFileName' = FileNameAt(now)
    /\ lastCall' = Call("startRecording", TRUE, "", FileNameAt(now), 0)
    /\ emitted' = <<Event("recording:started", "none", 0, 0, FileNameAt(now))>>
    /\ UNCHANGED <<recording, isRecording, audioFile, statusInterval, ctrlEnv, warnings, paused>>

\* startRecording's early return: if (this.isRecording) return {success: false, ...}
StartWhileRecording ==
    /\ lastCall' = Call("startRecording", FALSE, "Recording already in progress", NoFile, 0)
    /\ emitted' = <<>>
    /\ UNCHANGED <<ctrlFields, ctrlEnv, warnings, paused>>

StartRecording(backend, fail) ==
    /\ IF isRecording
       THEN StartWhileRecording
       ELSE IF backend = "none"
       THEN /\ lastCall' = Call("startRecording", FALSE, "Audio backend not found", NoFile, 0)
            /\ emitted' = <<Event("recording:error", "none", 0, 0, NoFile)>>
            /\ UNCHANGED <<ctrlFields, ctrlEnv, warnings, paused>>
       ELSE /\ sessions < MaxSessions
            /\ sessions' = sessions + 1
            /\ currentFileName' = FileNameAt(now)
            /\ audioFile' = IF fail = "createWriteStream" THEN audioFile ELSE sessions + 1
            /\ recording' = IF fail \in {"createWriteStream", "record"}
                            THEN recording ELSE sessions + 1
            /\ IF fail = "none"
               THEN /\ handlers' = handlers \cup {sessions + 1}
                    /\ isRecording' = TRUE
                    /\ startTime' = now
                    /\ statusInterval' = now + Interval
                    /\ timers' = Cleared + 1
                    /\ warnings' = [warning |-> 0, critical |-> 0]
                    /\ UNCHANGED paused
                    /\ emitted' = <<Event("recording:started", "none", 0, 0, FileNameAt(now))>>
                    /\ lastCall' = Call("startRecording", TRUE, "", FileNameAt(now), 0)
               ELSE /\ emitted' = <<>>
                    /\ lastCall' = Call("startRecording", FALSE, fail, NoFile, 0)
                    /\ UNCHANGED <<handlers, isRecording, startTime, statusInterval, timers,
                                   warnings, paused>>
            /\ UNCHANGED <<now, stopSignals, streamEnds>>

\* a variant of StopWhileIdle without the early return: the idle controller
\* reports a stopped session
StopAgainWhileIdle ==
    /\ lastCall' = Call("stopRecording", TRUE, "", currentFileName, 0)
    /\ emitted' = <<StoppedEvent>>
    /\ UNCHANGED <<ctrlFields, ctrlEnv, warnings, paused>>

\* stopRecording's early return: if (!this.isRecording) return {success: false, ...}
StopWhileIdle ==
    /\ lastCall' = Call("stopRecording", FALSE, "No recording in progress", NoFile, 0)
    /\ emitted' = <<>>
    /\ UNCHANGED <<ctrlFields, ctrlEnv, warnings, paused>>

StopRecording(fail) ==
    IF ~isRecording
    THEN StopWhileIdle
    ELSE /\ StopEffects(fail)
         /\ emitted' = StopEvents(fail)
         /\ lastCall' = IF fail = "none"
                        THEN Call("stopRecording", TRUE, "", currentFileName,
                                  StoppedEvent.duration)
                        ELSE Call("stopRecording", FALSE, fail, NoFile, 0)
         /\ UNCHANGED <<now, sessions, handlers, warnings, paused>>

\* the setInterval callback of startStatusUpdates
Tick(lvl) ==
    /\ statusInterval # Null
    /\ now >= statusInterval
    /\ IF ~isRecording
       THEN /\ statusInterval' = Null
            /\ timers' = Cleared
            /\ emitted' = <<>>
            /\ lastCall' = Call("tick", FALSE, "", NoFile, 0)
            /\ UNCHANGED <<warnings, paused>>
       ELSE LET status == GetRecordingStatus(lvl)
                evs == TimeWarnings(status.duration) \o
                       <<Event("recording:statusUpdate", "none", status.duration,
                               status.audioLevel, status.fileName)>>
            IN  /\ statusInterval' = now + Interval
                /\ timers' = timers
                /\ emitted' = evs
                /\ warnings' = Counted(evs)
                /\ UNCHANGED paused
                /\ lastCall' = Call("tick", TRUE, "", status.fileName, status.duration)
    /\ UNCHANGED <<recording, isRecording, startTime, audioFile, currentFileName,
                   now, sessions, handlers, stopSignals, streamEnds>>

\* a variant of PauseForUserChoice that leaves the timer armed
PauseKeepingTimer ==
    /\ statusInterval' = statusInterval
    /\ timers' = timers
    /\ emitted' = <<>>
    /\ lastCall' = Call("pauseForUserChoice", TRUE, "", NoFile, 0)
    /\ UNCHANGED <<recording, isRecording, startTime, audioFile, currentFileName,
                   now, sessions, handlers, stopSignals, streamEnds, warnings>>
    /\ paused' = TRUE

PauseForUserChoice ==
    /\ statusInterval' = Null
    /\ timers' = Cleared
    /\ emitted' = <<>>
    /\ lastCall' = Call("pauseForUserChoice", TRUE, "", NoFile, 0)
    /\ UNCHANGED <<recording, isRecording, startTime, audioFile, currentFileName,
                   now, sessions, handlers, stopSignals, streamEnds, warnings>>
    /\ paused' = TRUE

\* a variant of ResumeStatusUpdates whose startStatusUpdates does not clear
\* the timer it replaces
ResumeKeepingOldTimer ==
    /\ statusInterval' = IF isRecording THEN now + Interval ELSE statusInterval
    /\ timers' = IF isRecording THEN timers + 1 ELSE timers
    /\ emitted' = <<>>
    /\ lastCall' = Call("resumeStatusUpdates", TRUE, "", NoFile, 0)
    /\ UNCHANGED <<recording, isRecording, startTime, audioFile, currentFileName,
                   now, sessions, handlers, stopSignals, streamEnds, warnings>>
    /\ paused' = FALSE

\* resumeStatusUpdates: startStatusUpdates, when recording, clears the timer
\* in statusInterval and sets a new one
ResumeStatusUpdates ==
    /\ statusInterval' = IF isRecording THEN now + Interval ELSE statusInterval
    /\ timers' = IF isRecording THEN Cleared + 1 ELSE timers
    /\ emitted' = <<>>
    /\ lastCall' = Call("resumeStatusUpdates", TRUE, "", NoFile, 0)
    /\ UNCHANGED <<recording, isRecording, startTime, audioFile, currentFileName,
                   now, sessions, handlers, stopSignals, streamEnds, warnings>>
    /\ paused' = FALSE

Destroy(fail) ==
    /\ IF isRecording
       THEN /\ fail = "stop" => recording # Null
            /\ fail = "end" => audioFile # Null
            /\ recording' = IF fail = "stop" THEN recording ELSE Null
            /\ stopSignals' = IF recording # Null /\ fail # "stop"
                              THEN [stopSignals EXCEPT ![recording] = @ + 1]
                              ELSE stopSignals
            /\ audioFile' = IF fail = "none" THEN Null ELSE audioFile
            /\ streamEnds' = IF audioFile # Null /\ fail = "none"
                             THEN [streamEnds EXCEPT ![audioFile] = @ + 1]
                             ELSE streamEnds
            /\ isRecording' = IF fail = "none" THEN FALSE ELSE isRecording
            /\ startTime' = IF fail = "none" THEN Null ELSE startTime
            /\ currentFileName' = IF fail = "none" THEN NoFile ELSE currentFileName
            /\ emitted' = StopEvents(fail)
       ELSE /\ emitted' = <<>>
            /\ UNCHANGED <<recording, isRecording, startTime, audioFile,
                           currentFileName, stopSignals, streamEnds>>
    /\ statusInterval' = Null
    /\ timers' = Cleared
    /\ lastCall' = Call("destroy", TRUE, "", NoFile, 0)
    /\ UNCHANGED <<now, sessions, handlers, warnings, paused>>

\* the 'error' handler registered on the stream of session s
StreamError(s, fail) ==
    /\ s \in handlers
    /\ handlers' = handlers \ {s}
    /\ IF isRecording
       THEN /\ StopEffects(fail)
            /\ emitted' = StopEvents(fail) \o
                             <<Event("recording:error", "none", 0, 0, NoFile)>>
       ELSE /\ emitted' = <<Event("recording:error", "none", 0, 0, NoFile)>>
            /\ UNCHANGED <<ctrlFields, stopSignals, streamEnds, timers>>
    /\ lastCall' = Call("streamError", TRUE, "", NoFile, 0)
    /\ UNCHANGED <<now, sessions, warnings, paused>>

\* the write stream this.audioFile emits 'error' (disk full, file removed):
\* startRecording registers its 'error' handler on recording.stream() only,
\* so no code of the controller runs
AudioFileError ==
    /\ audioFile # Null
    /\ emitted' = <<>>
    /\ lastCall' = Call("audioFileError", TRUE, "", NoFile, 0)
    /\ UNCHANGED <<ctrlFields, ctrlEnv, warnings, paused>>

\* one clock unit passes; an armed timer runs at most MaxLate units late
ClockAdvance(limit) ==
    /\ now < limit
    /\ statusInterval # Null => now < statusInterval + MaxLate
    /\ now' = now + 1
    /\ emitted' = <<>>
    /\ lastCall' = Call("clock", TRUE, "", NoFile, 0)
    /\ UNCHANGED <<ctrlFields, sessions, handlers, stopSignals, streamEnds, timers,
                   warnings, paused>>


(* ------------------------- pipeline: the data -------------------------- *)

NoPath == 0
\* an awaited call that rejects instead of resolving with a value
Rejects == -1

\* names a user may type into a speaker's input field
NameInputs == {"", "Speaker 2"}

\* `Speaker ${n}`
GenericName(n) ==
    CASE n = 1 -> "Speaker 1"
      [] n = 2 -> "Speaker 2"
      [] n = 3 -> "Speaker 3"
      [] OTHER -> "Speaker 4"

\* name.trim(), on NameInputs
Trim(name) == IF name = " " THEN "" ELSE name

\* a Speaker of a TranscriptionResult: id `speaker_${n}`, name `Speaker ${n}`
Speaker(n) == [id |-> n, name |-> GenericName(n)]

NoTranscription == [present |-> FALSE, transcript |-> 0, speakers |-> <<>>, duration |-> 0]

\* the TranscriptionResult of audio file p with n speakers
Transcription(p, n) ==
    [present |-> TRUE, transcript |-> p, speakers |-> [i \in 1..n |-> Speaker(i)],
     duration |-> p]

NoAnalysis == [present |-> FALSE, suggestedTitle |-> 0]

\* the AIAnalysisResult for transcript t
Analysis(t) == [present |-> TRUE, suggestedTitle |-> t]

NoMeeting ==
    [present |-> FALSE, id |-> 0, title |-> 0, duration |-> 0, participants |-> <<>>,
     transcript |-> 0, audioFilePath |-> NoPath]

NoArgs == [transcript |-> 0, duration |-> 0, participants |-> <<>>]

NoCalls ==
    [processAudio |-> 0, analyzeMeeting |-> 0, saveMeeting |-> 0, deleteAudio |-> 0,
     onComplete |-> 0, navigate |-> 0]

Merge(r, u) == [f \in DOMAIN r |-> IF f \in DOMAIN u THEN u[f] ELSE r[f]]

\* what a committed render of ProcessingWorkflow has read from its state: it
\* decides the screen shown and is what the handlers of that render close over
ViewOf(run) ==
    [currentStep |-> run.currentStep, error |-> run.error,
     transcriptionResult |-> run.transcriptionResult,
     deleteRecording |-> run.deleteRecording]

\* the three return statements of ProcessingWorkflow
Screen(view) ==
    IF view.error # "" THEN "error"
    ELSE IF view.currentStep = "speaker-identification" /\ view.transcriptionResult.present
    THEN "speakers"
    ELSE "progress"

\* a state setter: React ignores it once the component is unmounted
SetState(run, u) == IF run.mounted THEN Merge(run, u) ELSE run

\* the spec's stage of a run, read from currentStep and error while the
\* component is mounted
Stage(run) ==
    IF ~run.mounted THEN "Unmounted"
    ELSE IF run.error # "" THEN "Failed"
    ELSE CASE run.currentStep = "transcription" -> "Transcribing"
           [] run.currentStep = "speaker-identification" -> "AwaitingSpeakerNames"
           [] run.currentStep = "ai-analysis" -> "Analyzing"
           [] run.currentStep = "saving" -> "Persisting"
           [] OTHER -> "Complete"

\* the useState initial values of ProcessingWorkflow and its first render
InitialState ==
    [currentStep |-> "transcription",
     progress |-> 0,
     transcriptionResult |-> NoTranscription,
     analysisResult |-> NoAnalysis,
     error |-> "",
     deleteRecording |-> TRUE,
     view |-> [currentStep |-> "transcription", error |-> "",
               transcriptionResult |-> NoTranscription, deleteRecording |-> TRUE]]

\* the locals of an async function chain that is not running
NoLocals ==
    [closure |-> [transcriptionResult |-> NoTranscription, deleteRecording |-> TRUE],
     speakers |-> <<>>,
     meeting |-> NoMeeting,
     savedMeeting |-> NoMeeting,
     analyzeArgs |-> NoArgs]

\* the state of a ProcessingWorkflow right after its mount effect has called
\* startTranscription for audio file p: setCurrentStep('transcription'),
\* setProgress(10), and processAudio awaited
MountedRun(p) ==
          [audioFilePath |-> p,
           mounted |-> TRUE,
           currentStep |-> "transcription",
           progress |-> 10,
           transcriptionResult |-> NoTranscription,
           analysisResult |-> NoAnalysis,
           error |-> "",
           deleteRecording |-> TRUE,
           view |-> InitialState.view,
           \* the running async function chain and its locals
           pc |-> "processAudio",
           closure |-> NoLocals.closure,
           speakers |-> <<>>,
           meeting |-> NoMeeting,
           savedMeeting |-> NoMeeting,
           analyzeArgs |-> NoArgs,
           \* history
           calls |-> [NoCalls EXCEPT !.processAudio = 1],
           namingVia |-> "",
           cancelledAt |-> "",
           callsAtCancel |-> NoCalls,
           \* how files.deleteAudio settled, kept until the timer callback
           deleteOutcome |-> "",
           \* what the provider answered to the run's analysis request
           providerResponse |-> "",
           \* DatabaseService.saveMeeting: the action items still to insert
           actionItems |-> 0]

\* the async function chain of run has returned: its locals are gone
Returned(run, pc) == Merge(Merge(run, NoLocals), [pc |-> pc])

\* React unmounts the component and discards its state
Unmounted(run) == Merge(Merge(run, InitialState), [mounted |-> FALSE])

(* ---------------------- pipeline: ProcessingWorkflow ------------------- *)

\* saveMeeting up to its await of database.saveMeeting
SaveMeeting(run, analysis) ==
    LET r1 == SetState(run, [currentStep |-> "saving", progress |-> 90])
    IN  IF ~run.closure.transcriptionResult.present
        THEN Returned(SetState(r1, [error |-> "Failed to save meeting. Please try again."]),
                      "idle")
        ELSE Merge(r1,
               [pc |-> "saveMeeting",
                calls |-> [run.calls EXCEPT !.saveMeeting = @ + 1],
                meeting |->
                    [present |-> FALSE, id |-> 0,
                     title |-> analysis.suggestedTitle,
                     duration |-> run.closure.transcriptionResult.duration,
                     participants |-> [i \in DOMAIN run.speakers |-> run.speakers[i].name],
                     transcript |-> run.closure.transcriptionResult.transcript,
                     audioFilePath |-> IF run.closure.deleteRecording
                                       THEN NoPath ELSE run.audioFilePath]])

\* startAIAnalysis(speakers) up to its await of ai.analyzeMeeting, called from
\* a function that closes over `closure`
StartAIAnalysis(run, speakers, closure) ==
    LET r1 == SetState(run, [currentStep |-> "ai-analysis", progress |-> 60])
    IN  IF ~closure.transcriptionResult.present
        THEN Returned(SetState(r1, [error |->
                        "Failed to analyze meeting. Please check your API configuration."]),
                      "idle")
        ELSE Merge(r1,
               [pc |-> "analyzeMeeting",
                closure |-> closure,
                speakers |-> speakers,
                calls |-> [run.calls EXCEPT !.analyzeMeeting = @ + 1],
                analyzeArgs |->
                    [transcript |-> closure.transcriptionResult.transcript,
                     duration |-> closure.transcriptionResult.duration,
                     participants |-> [i \in DOMAIN speakers |-> speakers[i].name]]])

\* a variant of TranscriptionResolved that does not wait for the observer: the
\* analysis starts with the speakers as transcribed
TranscriptionResolvedEager(run, result) ==
    StartAIAnalysis(SetState(run, [transcriptionResult |-> result, progress |-> 40]),
                    result.speakers,
                    [transcriptionResult |-> result,
                     deleteRecording |-> run.closure.deleteRecording])

\* startTranscription after transcription.processAudio has resolved with result
TranscriptionResolved(run, result) ==
    LET r1 == SetState(run, [transcriptionResult |-> result, progress |-> 40])
    IN  IF Len(result.speakers) > 0
        THEN Returned(SetState(r1, [currentStep |-> "speaker-identification"]), "idle")
        ELSE StartAIAnalysis(r1, <<>>, run.closure)

\* startTranscription's catch
TranscriptionRejected(run) ==
    Returned(SetState(run, [error |->
               "Failed to transcribe audio. Please check your API configuration."]),
             "idle")

\* startAIAnalysis after ai.analyzeMeeting has resolved
AnalysisResolved(run, analysis) ==
    SaveMeeting(SetState(run, [analysisResult |-> analysis, progress |-> 80]), analysis)

\* startAIAnalysis's catch
AnalysisRejected(run) ==
    Returned(SetState(run, [error |->
               "Failed to analyze meeting. Please check your API configuration."]),
             "idle")

\* saveMeeting's last statements: setProgress(100), setCurrentStep('complete'),
\* setTimeout(..., 1000)
Completed(run) ==
    Merge(SetState(run, [progress |-> 100, currentStep |-> "complete"]),
          [pc |-> "timeout"])

\* a variant of SaveResolved that deletes the audio file whatever the option
SaveResolvedDeleting(run, saved) ==
    Merge(run, [savedMeeting |-> saved,
                pc |-> "deleteAudio",
                calls |-> [run.calls EXCEPT !.deleteAudio = @ + 1]])

\* saveMeeting after database.saveMeeting has resolved with the meeting `saved`
SaveResolved(run, saved) ==
    LET r1 == Merge(run, [savedMeeting |-> saved])
    IN  IF run.closure.deleteRecording
        THEN Merge(r1, [pc |-> "deleteAudio",
                        calls |-> [run.calls EXCEPT !.deleteAudio = @ + 1]])
        ELSE Completed(r1)

\* a variant of SaveRejected that goes on to the deletion as if the meeting
\* had been saved
SaveRejectedDeleting(run) ==
    Merge(run, [pc |-> "deleteAudio",
                calls |-> [run.calls EXCEPT !.deleteAudio = @ + 1]])

\* saveMeeting's catch
SaveRejected(run) ==
    Returned(SetState(run, [error |-> "Failed to save meeting. Please try again."]),
             "idle")

\* a variant of DeleteSettled that lets a deletion that did not succeed fail
\* the run, as saveMeeting's outer catch would
DeleteSettledFailing(run, outcome) ==
    IF outcome = "deleted" THEN Completed(run)
    ELSE Returned(SetState(run, [error |-> "Failed to save meeting. Please try again."]),
                  "idle")

\* a variant of DeleteSettled that calls files.deleteAudio again when the
\* deletion did not succeed
DeleteSettledRetrying(run, outcome) ==
    IF outcome = "deleted" THEN Completed(run)
    ELSE Merge(run, [calls |-> [run.calls EXCEPT !.deleteAudio = @ + 1]])

\* saveMeeting after files.deleteAudio has settled: its value is not read and
\* its rejection is caught and logged
DeleteSettled(run, outcome) == Completed(run)

\* a variant of TimeoutCallback that deletes the audio file from the timer
\* callback
TimeoutCallbackDeleting(run) ==
    Returned(Merge(run, [calls |-> [run.calls EXCEPT !.onComplete = @ + 1,
                                                     !.navigate = @ + 1,
                                                     !.deleteAudio = @ + 1]]),
             "done")

\* a variant of TimeoutCallback that calls onComplete twice
TimeoutCallbackTwice(run) ==
    Returned(Merge(run, [calls |-> [run.calls EXCEPT !.onComplete = @ + 2,
                                                     !.navigate = @ + 1]]),
             "done")

\* the setTimeout callback: onComplete(savedMeeting); navigate(...)
TimeoutCallback(run) ==
    Returned(Merge(run, [calls |-> [run.calls EXCEPT !.onComplete = @ + 1,
                                                     !.navigate = @ + 1]]),
             "done")

\* DatabaseService.saveMeeting: the draft with a fresh id
FullMeeting(draft) == [draft EXCEPT !.present = TRUE, !.id = Len(database) + 1]

(* --------------------- pipeline: SpeakerIdentification ----------------- *)

\* useState initialiser: every speaker's name is ''
InitialNames(speakers) == [i \in DOMAIN speakers |-> ""]

hasAtLeastOneName == \E i \in DOMAIN speakerNames : Trim(speakerNames[i]) # ""

hasUniquenames ==
    \A i, j \in DOMAIN speakerNames :
        (i # j /\ Trim(speakerNames[i]) # "" /\ Trim(speakerNames[j]) # "")
            => speakerNames[i] # speakerNames[j]

\* handleConfirmSpeakers: speakerNames[speaker.id] || `Speaker ${speaker.id.split('_')[1]}`
IdentifiedSpeakers(speakers) ==
    [i \in DOMAIN speakers |->
        [speakers[i] EXCEPT !.name = IF speakerNames[i] # "" THEN speakerNames[i]
                                     ELSE GenericName(speakers[i].id)]]

\* a variant of GenericSpeakers that leaves the names empty
UnnamedSpeakers(speakers) ==
    [i \in DOMAIN speakers |-> [speakers[i] EXCEPT !.name = ""]]

\* handleSkipSpeakerIdentification: name `Speaker ${index + 1}`
GenericSpeakers(speakers) ==
    [i \in DOMAIN speakers |-> [speakers[i] EXCEPT !.name = GenericName(i)]]


(* ------------------------- pipeline: the actions ----------------------- *)

ClosureOf(view) ==
    [transcriptionResult |-> view.transcriptionResult,
     deleteRecording |-> view.deleteRecording]

\* React commits a render of run: the screen and the handlers follow its state
Commit(run) == Merge(run, [view |-> ViewOf(run)])

\* the state of SpeakerIdentification after the view of its parent went from
\* `old` to `new`: mounted with empty names, kept, or unmounted
NamesAfter(old, new) ==
    IF Screen(new) # "speakers" THEN <<>>
    ELSE IF Screen(old) = "speakers" THEN speakerNames
    ELSE InitialNames(new.transcriptionResult.speakers)

IdlePage == [isProcessing |-> FALSE, audioFilePath |-> NoPath]

\* RecordingPage.handleStopRecording up to its await
HandleStopRecording ==
    /\ page = IdlePage
    /\ ~stopPending
    /\ page' = [page EXCEPT !.isProcessing = TRUE]
    /\ stopPending' = TRUE
    /\ UNCHANGED <<runs, speakerNames, database>>

\* RecordingPage.handleStopRecording after audio.stopRecording() has settled:
\* with the path of an audio file, without one, or by rejecting
StopRecordingSettles(outcome) ==
    /\ stopPending
    /\ stopPending' = FALSE
    /\ IF outcome = Rejects
       THEN /\ page' = [page EXCEPT !.isProcessing = FALSE]
            /\ UNCHANGED runs
       ELSE IF outcome = NoPath
       THEN UNCHANGED <<page, runs>>
       ELSE /\ Len(runs) < MaxRuns
            /\ page' = [page EXCEPT !.audioFilePath = outcome]
            /\ runs' = Append(runs, MountedRun(outcome))
    /\ UNCHANGED <<speakerNames, database>>

\* a render of the mounted workflow r that follows state set outside an event
Render(r) ==
    /\ runs[r].mounted
    /\ runs[r].view # ViewOf(runs[r])
    /\ runs' = [runs EXCEPT ![r] = Commit(@)]
    /\ speakerNames' = NamesAfter(runs[r].view, ViewOf(runs[r]))
    /\ UNCHANGED <<page, stopPending, database>>

\* the Retry button of the error view: onClick={() => setError(null)}
Retry(r) ==
    /\ runs[r].mounted
    /\ Screen(runs[r].view) = "error"
    /\ LET new == Commit(SetState(runs[r], [error |-> ""]))
       IN  /\ runs' = [runs EXCEPT ![r] = new]
           /\ speakerNames' = NamesAfter(runs[r].view, new.view)
    /\ UNCHANGED <<page, stopPending, database>>

\* the cleanup checkbox: onChange={(e) => setDeleteRecording(e.target.checked)}
ToggleDeleteRecording(r) ==
    /\ runs[r].mounted
    /\ Screen(runs[r].view) = "progress"
    /\ runs[r].view.currentStep # "complete"
    /\ LET new == Commit(SetState(runs[r],
                      [deleteRecording |-> ~runs[r].view.deleteRecording]))
       IN  /\ runs' = [runs EXCEPT ![r] = new]
           /\ speakerNames' = NamesAfter(runs[r].view, new.view)
    /\ UNCHANGED <<page, stopPending, database>>

\* either Cancel button (onClick={onCancel}) and RecordingPage.handleProcessingCancel
HandleProcessingCancel(r) ==
    /\ runs[r].mounted
    /\ \/ Screen(runs[r].view) = "error"
       \/ Screen(runs[r].view) = "progress" /\ runs[r].view.currentStep # "complete"
    /\ page' = IdlePage
    /\ runs' = [runs EXCEPT ![r] = Merge(Unmounted(@), [cancelledAt |-> Stage(@),
                                                        callsAtCancel |-> @.calls])]
    /\ speakerNames' = <<>>
    /\ UNCHANGED <<stopPending, database>>

\* SpeakerIdentification.handleNameChange
HandleNameChange(r, i, name) ==
    /\ runs[r].mounted
    /\ Screen(runs[r].view) = "speakers"
    /\ i \in DOMAIN speakerNames
    /\ speakerNames[i] # name
    /\ speakerNames' = [speakerNames EXCEPT ![i] = name]
    /\ UNCHANGED <<page, stopPending, runs, database>>

\* the Confirm Speakers button (disabled={!hasAtLeastOneName || !hasUniquenames()}),
\* handleConfirmSpeakers and handleSpeakersIdentified
HandleConfirmSpeakers(r) ==
    /\ runs[r].mounted
    /\ Screen(runs[r].view) = "speakers"
    /\ hasAtLeastOneName
    /\ hasUniquenames
    /\ LET view == runs[r].view
           new == Commit(Merge(StartAIAnalysis(runs[r],
                                   IdentifiedSpeakers(view.transcriptionResult.speakers),
                                   ClosureOf(view)),
                               [namingVia |-> "confirm"]))
       IN  /\ runs' = [runs EXCEPT ![r] = new]
           /\ speakerNames' = NamesAfter(view, new.view)
    /\ UNCHANGED <<page, stopPending, database>>

\* the Skip button and handleSkipSpeakerIdentification
HandleSkipSpeakerIdentification(r) ==
    /\ runs[r].mounted
    /\ Screen(runs[r].view) = "speakers"
    /\ LET view == runs[r].view
           new == Commit(Merge(StartAIAnalysis(runs[r],
                                   GenericSpeakers(view.transcriptionResult.speakers),
                                   ClosureOf(view)),
                               [namingVia |-> "skip"]))
       IN  /\ runs' = [runs EXCEPT ![r] = new]
           /\ speakerNames' = NamesAfter(view, new.view)
    /\ UNCHANGED <<page, stopPending, database>>

\* transcription.processAudio settles: it rejects, or resolves with n speakers
ProcessAudioSettles(r, outcome) ==
    /\ runs[r].pc = "processAudio"
    /\ runs' = [runs EXCEPT ![r] =
                  IF outcome = Rejects THEN TranscriptionRejected(@)
                  ELSE TranscriptionResolved(@, Transcription(@.audioFilePath, outcome))]
    /\ UNCHANGED <<page, stopPending, speakerNames, database>>

\* ai.analyzeMeeting settles
AnalyzeMeetingSettles(r, resolves) ==
    /\ runs[r].pc = "analyzeMeeting"
    /\ runs' = [runs EXCEPT ![r] =
                  IF resolves
                  THEN AnalysisResolved(@, Analysis(@.analyzeArgs.transcript))
                  ELSE AnalysisRejected(@)]
    /\ UNCHANGED <<page, stopPending, speakerNames, database>>

\* database.saveMeeting settles
SaveMeetingSettles(r, resolves) ==
    /\ runs[r].pc = "saveMeeting"
    /\ IF resolves
       THEN /\ runs' = [runs EXCEPT ![r] = SaveResolved(@, FullMeeting(@.meeting))]
            /\ database' = Append(database, FullMeeting(runs[r].meeting))
       ELSE /\ runs' = [runs EXCEPT ![r] = SaveRejected(@)]
            /\ UNCHANGED database
    /\ UNCHANGED <<page, stopPending, speakerNames>>

\* files.deleteAudio settles: {success: true}, {success: false} or a rejection
DeleteAudioSettles(r, outcome) ==
    /\ runs[r].pc = "deleteAudio"
    /\ runs' = [runs EXCEPT ![r] = Merge(DeleteSettled(@, outcome),
                                         [deleteOutcome |-> outcome])]
    /\ UNCHANGED <<page, stopPending, speakerNames, database>>

\* the timer set by saveMeeting fires: onComplete is
\* RecordingPage.handleProcessingComplete, and navigate leaves the page
TimeoutFires(r) ==
    /\ runs[r].pc = "timeout"
    /\ runs' = [q \in DOMAIN runs |->
                  IF q = r
                  THEN Merge(Unmounted(TimeoutCallback(runs[q])), [deleteOutcome |-> ""])
                  ELSE Unmounted(runs[q])]
    /\ page' = IdlePage
    /\ stopPending' = FALSE
    /\ speakerNames' = <<>>
    /\ UNCHANGED database

PipeInit ==
    /\ page = IdlePage
    /\ stopPending = FALSE
    /\ runs = <<>>
    /\ speakerNames = <<>>
    /\ database = <<>>

(* ------------------------ TranscriptionService ------------------------- *)

\* A transcript is written as a run-length code of its text: an optional
\* leading blank, the sentences of `groups` in order, an optional trailing
\* blank. A group stands for `count` copies of one sentence; a sentence is
\* `ind` times the indicator word "yes", then `plain` times a plain word of
\* PlainChars letters, the words one blank apart and the last word followed
\* by "."; sentences are one blank apart.
IndChars == 3
PlainChars == 5
\* numbers of plain words a sentence may have
PlainLens == {0, 1, 13, 14, 15, 30}

Sentence(ind, plain) == [ind |-> ind, plain |-> plain]
Group(count, sentence) == [count |-> count, sentence |-> sentence]
Text(lead, groups, trail) == [lead |-> lead, groups |-> groups, trail |-> trail]

Sentences == {Sentence(i, p) : i \in 0..MaxInd, p \in PlainLens} \ {Sentence(0, 0)}
Groups == {Group(c, s) : c \in 0..MaxReps, s \in Sentences}
\* the texts of two groups drawn from `groups`
TranscriptsOf(groups) ==
    {Text(l, <<a, b>>, t) : l \in BOOLEAN, a \in groups, b \in groups, t \in BOOLEAN}

RECURSIVE SumOver(_, _)
\* the sum of f[i] over the indices of f from i on
SumOver(f, i) == IF i > Len(f) THEN 0 ELSE f[i] + SumOver(f, i + 1)

WordsOf(sentence) == sentence.ind + sentence.plain
\* the number of sentences and of words in the text
SentenceCount(t) == SumOver([g \in DOMAIN t.groups |-> t.groups[g].count], 1)
WordCount(t) ==
    SumOver([g \in DOMAIN t.groups |->
               t.groups[g].count * WordsOf(t.groups[g].sentence)], 1)

\* transcript.toLowerCase().split(/\s+/).length: the words, and an empty
\* string for a blank at the start and for one at the end of the text; the
\* empty text splits into one empty string, a blank text into two
TotalWords(t) ==
    IF SentenceCount(t) = 0
    THEN IF t.lead \/ t.trail THEN 2 ELSE 1
    ELSE WordCount(t) + (IF t.lead THEN 1 ELSE 0) + (IF t.trail THEN 1 ELSE 0)

\* the words of a sentence that equal an indicator word: its last word ends
\* with the "." and equals none
IndicatorsOf(sentence) ==
    IF sentence.plain = 0 THEN sentence.ind - 1 ELSE sentence.ind

\* words.filter(word => conversationIndicators.includes(word) ||
\* addressPatterns.includes(word)).length
IndicatorCount(t) ==
    SumOver([g \in DOMAIN t.groups |->
               t.groups[g].count * IndicatorsOf(t.groups[g].sentence)], 1)

\* s.trim().length of a sentence
TrimLength(sentence) ==
    IndChars * sentence.ind + PlainChars * sentence.plain + (WordsOf(sentence) - 1)

\* the filter of transcript.split(/[.!?]+/): s.trim().length > 10
Kept(sentence) == TrimLength(sentence) > 10

\* the index of the group that holds the first sentence of the text, or 0
FirstGroup(t) ==
    IF \A g \in DOMAIN t.groups : t.groups[g].count = 0 THEN 0
    ELSE CHOOSE g \in DOMAIN t.groups :
            /\ t.groups[g].count > 0
            /\ \A h \in DOMAIN t.groups : h < g => t.groups[h].count = 0

\* s.split(/\s+/).length of a piece of transcript.split(/[.!?]+/): the piece
\* is not trimmed, so the blank it starts with adds an empty string
PieceLength(sentence, startsWithBlank) ==
    WordsOf(sentence) + (IF startsWithBlank THEN 1 ELSE 0)

\* sentences.length
KeptCount(t) ==
    SumOver([g \in DOMAIN t.groups |->
               IF Kept(t.groups[g].sentence) THEN t.groups[g].count ELSE 0], 1)

\* sentences.filter(s => s.split(/\s+/).length < 15).length
ShortCount(t) ==
    SumOver([g \in DOMAIN t.groups |->
        LET sentence == t.groups[g].sentence
            first == IF g = FirstGroup(t) THEN 1 ELSE 0
        IN  IF ~Kept(sentence) THEN 0
            ELSE (IF PieceLength(sentence, t.lead) < 15 THEN first ELSE 0)
               + (IF PieceLength(sentence, TRUE) < 15
                  THEN t.groups[g].count - first ELSE 0)], 1)

Max(a, b) == IF a >= b THEN a ELSE b
Min(a, b) == IF a <= b THEN a ELSE b

\* a variant of NumSpeakers without the gate on the number of words and
\* without the cap: one speaker for every indicator word
NumSpeakersPerIndicator(t) == IndicatorCount(t)

\* simulateSpeakerDiarization's numSpeakers. The quotients are compared as
\* fractions of integers: x / y > 0.15 is 20 x > 3 y, x / y > 0.08 is
\* 25 x > 2 y and x / y > 0.6 is 5 x > 3 y (the doubles agree with the
\* fractions for every y below 2^50)
NumSpeakers(t) ==
    LET totalWords == TotalWords(t)
        indicatorCount == IndicatorCount(t)
        byRatio == IF 20 * indicatorCount > 3 * totalWords THEN 3
                   ELSE IF 25 * indicatorCount > 2 * totalWords THEN 2
                   ELSE 1
        bySentences == IF KeptCount(t) > 5 /\ 5 * ShortCount(t) > 3 * KeptCount(t)
                       THEN Max(byRatio, 2) ELSE byRatio
    IN  Min(IF totalWords > 100 THEN bySentences ELSE 1, 4)

\* simulateSpeakerDiarization
SimulateSpeakerDiarization(t) == [i \in 1..NumSpeakers(t) |-> Speaker(i)]

\* transcribeAudio after openai.audio.transcriptions.create has resolved with
\* the text t
TranscribeAudio(t) ==
    /\ transcript' = t
    /\ diarized' = SimulateSpeakerDiarization(t)

EstInit ==
    /\ transcript = Text(FALSE, <<>>, FALSE)
    /\ diarized = <<>>

\* the texts of the end-to-end scenarios: the nine words "Yes I agree, you
\* said the budget is approved" (two of them indicator words), and a dialogue
\* of six sentences of seventeen words that each start with two indicator words
BudgetTranscript == Text(FALSE, <<Group(1, Sentence(2, 7))>>, FALSE)
DialogueTranscript == Text(FALSE, <<Group(6, Sentence(2, 15))>>, FALSE)
ScenarioTranscripts == <<BudgetTranscript, DialogueTranscript>>

\* transcription.processAudio of run r settles in the main process:
\* transcribeAudio gets the k-th scenario text from the API and resolves with
\* it, with the speakers simulateSpeakerDiarization makes of it and with the
\* duration of the file
ProcessAudioTranscribes(r, k) ==
    /\ runs[r].pc = "processAudio"
    /\ TranscribeAudio(ScenarioTranscripts[k])
    /\ runs' = [runs EXCEPT ![r] =
                  TranscriptionResolved(@,
                      [present |-> TRUE,
                       transcript |-> k,
                       speakers |-> SimulateSpeakerDiarization(ScenarioTranscripts[k]),
                       duration |-> @.audioFilePath])]
    /\ UNCHANGED <<page, stopPending, speakerNames, database>>

(* -------------------------- AIAnalysisService -------------------------- *)

\* what anthropic.messages.create may do: resolve with a text that holds a
\* JSON object, with a text without braces, with a text whose braces do not
\* hold valid JSON, or reject
ProviderResponses == {"object", "prose", "brokenObject", "error"}

\* suggestedTitle: 'Møte' of the fallback result
FallbackTitle == -2

\* parseAnalysisResponse for the request about transcript t: the parsed
\* object, or, from its catch, the fallback result
ParseAnalysisResponse(response, t) ==
    IF response = "object" THEN Analysis(t)
    ELSE [present |-> TRUE, suggestedTitle |-> FallbackTitle]

\* analyzeMeeting and the renderer's await of it: the provider's answer to
\* the request of run r arrives
AnalyzeMeetingResponds(r, response) ==
    /\ runs[r].pc = "analyzeMeeting"
    /\ runs' = [runs EXCEPT ![r] =
                  Merge(IF response = "error"
                        THEN AnalysisRejected(@)
                        ELSE AnalysisResolved(@,
                                 ParseAnalysisResponse(response, @.analyzeArgs.transcript)),
                        [providerResponse |-> response])]
    /\ UNCHANGED <<page, stopPending, speakerNames, database>>

(* --------------------------- DatabaseService --------------------------- *)

\* the loop in the callback of the INSERT INTO meetings after one
\* `await this.saveActionItem(...)` has settled: a rejection is thrown inside
\* the async callback, which calls neither resolve nor reject
ActionItemInserted(run, err) ==
    IF err THEN Merge(run, [pc |-> "neverSettles"])
    ELSE IF run.actionItems = 1
    THEN SaveResolved(Merge(run, [actionItems |-> 0]), run.meeting)
    ELSE Merge(run, [actionItems |-> run.actionItems - 1])

\* DatabaseService.saveMeeting for the meeting of run r: the INSERT INTO
\* meetings has run and its callback is called with or without an error; the
\* meeting has n action items
InsertMeetingSettles(r, err, n) ==
    /\ runs[r].pc = "saveMeeting"
    /\ IF err
       THEN /\ runs' = [runs EXCEPT ![r] = SaveRejected(@)]
            /\ UNCHANGED database
       ELSE /\ database' = Append(database, FullMeeting(runs[r].meeting))
            /\ runs' = [runs EXCEPT ![r] =
                          IF n = 0
                          THEN SaveResolved(@, FullMeeting(@.meeting))
                          ELSE Merge(@, [pc |-> "saveActionItem",
                                         meeting |-> FullMeeting(@.meeting),
                                         actionItems |-> n])]
    /\ UNCHANGED <<page, stopPending, speakerNames>>

\* saveActionItem settles for the next action item of the meeting of run r
SaveActionItemSettles(r, err) ==
    /\ runs[r].pc = "saveActionItem"
    /\ runs' = [runs EXCEPT ![r] = ActionItemInserted(@, err)]
    /\ UNCHANGED <<page, stopPending, speakerNames, database>>

(* ------------------ snippets of the recordings directory --------------- *)

\* the audio files of the recordings directory, and the snippet files
\* speaker_1_sample.wav .. speaker_4_sample.wav of its subdirectory
AudioIds == 1..MaxAudios
MaxNumSpeakers == 4
SnippetIds == 1..MaxNumSpeakers

\* Math.floor((i * 30) + 10) for the speaker with id k = i + 1
SnippetStart(k) == ((k - 1) * 30) + 10
\* the duration argument of `trim`
SnippetDuration == 5

\* the arguments of spawnSync('sox', ...) for speaker k of audio file a
SoxArgs(a, k) ==
    [input |-> a, output |-> k, start |-> SnippetStart(k), duration |-> SnippetDuration]

NoFileCall == [op |-> "none", audio |-> NoPath, numSpeakers |-> 0, failed |-> {},
               mkdir |-> FALSE, requests |-> <<>>, success |-> TRUE]

\* a variant of extractAudioSnippets whose loop ends at the first extraction
\* that fails
SnippetsUntilFailure(n, failed, dirFails) ==
    IF dirFails THEN <<>>
    ELSE [k \in 1..n |-> IF \E j \in failed : j <= k THEN 0 ELSE k]

\* the array extractAudioSnippets returns for n speakers when the extractions
\* of the speakers in `failed` fail: the snippet path (its speaker id) or '';
\* nothing is pushed when the directory can not be made
Snippets(n, failed, dirFails) ==
    IF dirFails THEN <<>>
    ELSE [k \in 1..n |-> IF k \in failed THEN 0 ELSE k]

\* the Speaker objects simulateSpeakerDiarization pushes: audioSnippets[i] || ''
SpeakersWithSamples(n, snippets) ==
    [k \in 1..n |-> [id |-> k, name |-> GenericName(k),
                     sampleAudio |-> IF k <= Len(snippets) THEN snippets[k] ELSE 0]]

\* processAudio for audio file a whose transcript gives numSpeakers = n:
\* extractAudioSnippets makes the directory if it is missing, runs sox once
\* per speaker, synchronously, and a successful run (over)writes
\* speaker_k_sample.wav; a failed run is taken to leave the file as it was
ExtractAudioSnippets(a, n, failed, mkdirFails) ==
    LET dirFails == ~snippetsDir /\ mkdirFails
        snippets == Snippets(n, failed, dirFails)
    IN  /\ a \in audioFiles
        /\ speakersOf[a] = <<>>
        /\ mkdirFails => ~snippetsDir
        /\ dirFails => failed = {}
        /\ snippetsDir' = IF dirFails THEN FALSE ELSE TRUE
        /\ snippetFiles' = IF dirFails THEN snippetFiles
                           ELSE [k \in SnippetIds |->
                                   IF k <= n /\ k \notin failed THEN a
                                   ELSE snippetFiles[k]]
        /\ speakersOf' = [speakersOf EXCEPT ![a] = SpeakersWithSamples(n, snippets)]
        /\ fileCall' = [op |-> "processAudio", audio |-> a, numSpeakers |-> n,
                        failed |-> failed, mkdir |-> ~dirFails,
                        requests |-> IF dirFails THEN <<>>
                                     ELSE [k \in 1..n |-> SoxArgs(a, k)],
                        success |-> TRUE]
        /\ UNCHANGED audioFiles

\* FileService.deleteAudioWithSnippets(a), called for a processed file:
\* unlinks the audio file, then every file of the snippets directory, then
\* removes the directory
DeleteAudioWithSnippets(a, unlinkFails) ==
    /\ a \in audioFiles
    /\ speakersOf[a] # <<>>
    /\ audioFiles' = IF unlinkFails THEN audioFiles ELSE audioFiles \ {a}
    /\ snippetFiles' = IF snippetsDir THEN [k \in SnippetIds |-> NoPath] ELSE snippetFiles
    /\ snippetsDir' = FALSE
    /\ fileCall' = [NoFileCall EXCEPT !.op = "deleteAudio", !.audio = a,
                                      !.success = ~unlinkFails]
    /\ UNCHANGED speakersOf

FileInit ==
    /\ audioFiles = AudioIds
    /\ snippetsDir = FALSE
    /\ snippetFiles = [k \in SnippetIds |-> NoPath]
    /\ speakersOf = [a \in AudioIds |-> <<>>]
    /\ fileCall = NoFileCall

(* --------------------------- specifications ---------------------------- *)

CtrlInit ==
    /\ recording = Null
    /\ isRecording = FALSE
    /\ startTime = Null
    /\ audioFile = Null
    /\ currentFileName = NoFile
    /\ statusInterval = Null
    /\ now = 0
    /\ sessions = 0
    /\ handlers = {}
    /\ stopSignals = [s \in SessionIds |-> 0]
    /\ streamEnds = [s \in SessionIds |-> 0]
    /\ timers = 0
    /\ emitted = <<>>
    /\ lastCall = Call("new", TRUE, "", NoFile, 0)
    /\ warnings = [warning |-> 0, critical |-> 0]
    /\ paused = FALSE

Init == CtrlInit /\ PipeInit /\ EstInit /\ FileInit

\* the lifecycle of the controller, over a short stretch of time
Start ==
    /\ \E b \in Backends, f \in StartFailures : StartRecording(b, f)
    /\ UNCHANGED <<pipeVars, estVars, fileVars>>
Stop == (\E f \in StopFailures : StopRecording(f)) /\ UNCHANGED <<pipeVars, estVars, fileVars>>
StatusTick == (\E lvl \in AudioLevels : Tick(lvl)) /\ UNCHANGED <<pipeVars, estVars, fileVars>>
Pause == PauseForUserChoice /\ UNCHANGED <<pipeVars, estVars, fileVars>>
Resume == ResumeStatusUpdates /\ UNCHANGED <<pipeVars, estVars, fileVars>>
Shutdown == (\E f \in StopFailures : Destroy(f)) /\ UNCHANGED <<pipeVars, estVars, fileVars>>
StreamFails ==
    /\ \E s \in SessionIds, f \in StopFailures : StreamError(s, f)
    /\ UNCHANGED <<pipeVars, estVars, fileVars>>
Clock == ClockAdvance(ShortNow) /\ UNCHANGED <<pipeVars, estVars, fileVars>>

Next ==
    \/ Start
    \/ Stop
    \/ StatusTick
    \/ Pause
    \/ Resume
    \/ Shutdown
    \/ StreamFails
    \/ Clock

Spec == Init /\ [][Next]_vars

\* the lifecycle of the controller with failures of the output file
FileStreamFails == AudioFileError /\ UNCHANGED <<pipeVars, estVars, fileVars>>

IoNext ==
    \/ Start
    \/ Stop
    \/ StatusTick
    \/ Pause
    \/ Resume
    \/ Shutdown
    \/ StreamFails
    \/ FileStreamFails
    \/ Clock

IoSpec == Init /\ [][IoNext]_vars

\* a long session: started in the first MaxStartAt clock units, its timer
\* running up to MaxLate units late; the clock stands still while nothing is
\* recorded and no session can start any more
LongStart ==
    /\ now <= MaxStartAt
    /\ StartRecording("sox", "none")
    /\ UNCHANGED <<pipeVars, estVars, fileVars>>
LongStop == StopRecording("none") /\ UNCHANGED <<pipeVars, estVars, fileVars>>
LongClock ==
    /\ isRecording \/ now < MaxStartAt
    /\ ClockAdvance(MaxNow)
    /\ UNCHANGED <<pipeVars, estVars, fileVars>>

LongNext ==
    \/ LongStart
    \/ LongStop
    \/ StatusTick
    \/ LongClock

LongSpec == Init /\ [][LongNext]_vars

\* the same session under a synthetic clock: every timer callback runs at the
\* instant it is due
SyncClock ==
    /\ LongClock
    /\ statusInterval # Null => now < statusInterval

SyncNext ==
    \/ LongStart
    \/ LongStop
    \/ StatusTick
    \/ SyncClock

SyncSpec == Init /\ [][SyncNext]_vars

\* the pipeline: the recording page, the workflows it mounts and the services
\* they call, whose outcomes are inputs
PageStop == HandleStopRecording /\ UNCHANGED <<ctrlVars, estVars, fileVars>>
PageStopSettles ==
    /\ \E outcome \in {Len(runs) + 1, NoPath, Rejects} : StopRecordingSettles(outcome)
    /\ UNCHANGED <<ctrlVars, estVars, fileVars>>
Rerender == (\E r \in DOMAIN runs : Render(r)) /\ UNCHANGED <<ctrlVars, estVars, fileVars>>
ClickRetry == (\E r \in DOMAIN runs : Retry(r)) /\ UNCHANGED <<ctrlVars, estVars, fileVars>>
ClickCleanup == (\E r \in DOMAIN runs : ToggleDeleteRecording(r)) /\ UNCHANGED <<ctrlVars, estVars, fileVars>>
ClickCancel == (\E r \in DOMAIN runs : HandleProcessingCancel(r)) /\ UNCHANGED <<ctrlVars, estVars, fileVars>>
TypeName ==
    /\ \E r \in DOMAIN runs, i \in 1..MaxSpeakers, name \in NameInputs :
          HandleNameChange(r, i, name)
    /\ UNCHANGED <<ctrlVars, estVars, fileVars>>
ClickConfirm == (\E r \in DOMAIN runs : HandleConfirmSpeakers(r)) /\ UNCHANGED <<ctrlVars, estVars, fileVars>>
ClickSkip ==
    /\ \E r \in DOMAIN runs : HandleSkipSpeakerIdentification(r)
    /\ UNCHANGED <<ctrlVars, estVars, fileVars>>
TranscriptionSettles ==
    /\ \E r \in DOMAIN runs, outcome \in (0..MaxSpeakers) \cup {Rejects} :
          ProcessAudioSettles(r, outcome)
    /\ UNCHANGED <<ctrlVars, estVars, fileVars>>
AnalysisSettles ==
    /\ \E r \in DOMAIN runs, resolves \in BOOLEAN : AnalyzeMeetingSettles(r, resolves)
    /\ UNCHANGED <<ctrlVars, estVars, fileVars>>
SaveSettles ==
    /\ \E r \in DOMAIN runs, resolves \in BOOLEAN : SaveMeetingSettles(r, resolves)
    /\ UNCHANGED <<ctrlVars, estVars, fileVars>>
DeleteSettles ==
    /\ \E r \in DOMAIN runs, outcome \in {"deleted", "failed", "rejects"} :
          DeleteAudioSettles(r, outcome)
    /\ UNCHANGED <<ctrlVars, estVars, fileVars>>
CompleteTimer == (\E r \in DOMAIN runs : TimeoutFires(r)) /\ UNCHANGED <<ctrlVars, estVars, fileVars>>

PipeNext ==
    \/ PageStop
    \/ PageStopSettles
    \/ Rerender
    \/ ClickRetry
    \/ ClickCleanup
    \/ ClickCancel
    \/ TypeName
    \/ ClickConfirm
    \/ ClickSkip
    \/ TranscriptionSettles
    \/ AnalysisSettles
    \/ SaveSettles
    \/ DeleteSettles
    \/ CompleteTimer

PipeSpec == Init /\ [][PipeNext]_vars

\* the pipeline when whatever can happen next does happen
FairPipeSpec == PipeSpec /\ WF_vars(PipeNext)

\* the transcription service, asked once: the text it may be given, and what
\* it makes of it
Transcribe ==
    /\ diarized = <<>>
    /\ \E t \in TranscriptsOf(Groups) : TranscribeAudio(t)
    /\ UNCHANGED <<ctrlVars, pipeVars, fileVars>>

EstNext == Transcribe

EstSpec == Init /\ [][EstNext]_vars

\* the pipeline end to end: the transcription result of a run is what the
\* transcription service makes of a scenario text
TranscriptionDone ==
    /\ \E r \in DOMAIN runs, k \in DOMAIN ScenarioTranscripts :
          ProcessAudioTranscribes(r, k)
    /\ UNCHANGED <<ctrlVars, fileVars>>
TranscriptionFails ==
    /\ \E r \in DOMAIN runs : ProcessAudioSettles(r, Rejects)
    /\ UNCHANGED <<ctrlVars, estVars, fileVars>>

EndToEndNext ==
    \/ PageStop
    \/ PageStopSettles
    \/ Rerender
    \/ ClickRetry
    \/ ClickCleanup
    \/ ClickCancel
    \/ TypeName
    \/ ClickConfirm
    \/ ClickSkip
    \/ TranscriptionDone
    \/ TranscriptionFails
    \/ AnalysisSettles
    \/ SaveSettles
    \/ DeleteSettles
    \/ CompleteTimer

EndToEndSpec == Init /\ [][EndToEndNext]_vars

\* the pipeline with the analysis service: the analysis result of a run is
\* what the service makes of the provider's answer; the observer skips the
\* naming and leaves the other controls alone
AnalysisResponds ==
    /\ \E r \in DOMAIN runs, response \in ProviderResponses :
          AnalyzeMeetingResponds(r, response)
    /\ UNCHANGED <<ctrlVars, estVars, fileVars>>

ProviderNext ==
    \/ PageStop
    \/ PageStopSettles
    \/ Rerender
    \/ ClickRetry
    \/ ClickCleanup
    \/ ClickSkip
    \/ TranscriptionSettles
    \/ AnalysisResponds
    \/ SaveSettles
    \/ DeleteSettles
    \/ CompleteTimer

ProviderSpec == Init /\ [][ProviderNext]_vars

\* the pipeline with the database service: the save of a run settles as
\* DatabaseService.saveMeeting settles it; the observer skips the naming
MeetingInserted ==
    /\ \E r \in DOMAIN runs, err \in BOOLEAN, n \in 0..MaxActionItems :
          InsertMeetingSettles(r, err, n)
    /\ UNCHANGED <<ctrlVars, estVars, fileVars>>
ActionItemSettles ==
    /\ \E r \in DOMAIN runs, err \in BOOLEAN : SaveActionItemSettles(r, err)
    /\ UNCHANGED <<ctrlVars, estVars, fileVars>>

SaveNext ==
    \/ PageStop
    \/ PageStopSettles
    \/ Rerender
    \/ ClickCleanup
    \/ ClickSkip
    \/ TranscriptionSettles
    \/ AnalysisSettles
    \/ MeetingInserted
    \/ ActionItemSettles
    \/ DeleteSettles
    \/ CompleteTimer

SaveSpec == Init /\ [][SaveNext]_vars

\* every call that is awaited and can settle does settle
FairSaveSpec ==
    /\ SaveSpec
    /\ WF_vars(MeetingInserted)
    /\ WF_vars(ActionItemSettles)
    /\ WF_vars(DeleteSettles)

\* the main process serving the runs of several audio files: each file is
\* transcribed once, with any estimate and any extractions failing, and a
\* processed file may be cleaned up at any later time
ProcessAudioExtracts ==
    /\ \E a \in AudioIds, n \in 1..Min(MaxSpeakers, MaxNumSpeakers), mkdirFails \in BOOLEAN :
          \E failed \in SUBSET (1..n) : ExtractAudioSnippets(a, n, failed, mkdirFails)
    /\ UNCHANGED <<ctrlVars, pipeVars, estVars>>
DeleteAudio ==
    /\ \E a \in AudioIds, unlinkFails \in BOOLEAN : DeleteAudioWithSnippets(a, unlinkFails)
    /\ UNCHANGED <<ctrlVars, pipeVars, estVars>>

SnippetNext ==
    \/ ProcessAudioExtracts
    \/ DeleteAudio

SnippetSpec == Init /\ [][SnippetNext]_vars

(* ------------------------ controller: properties ----------------------- *)

\* C1: a startRecording issued while the controller is recording returns the
\* error AlreadyRecording, emits no event and changes nothing: the running
\* session keeps its subprocess, its stream, its file name, its start time
\* and its timer.
C1_StartWhileRecordingIsRejected ==
    [][(isRecording /\ lastCall'.op = "startRecording")
         => /\ lastCall' = Call("startRecording", FALSE, "Recording already in progress", NoFile, 0)
            /\ emitted' = <<>>
            /\ UNCHANGED <<ctrlFields, ctrlEnv, warnings>>]_vars

\* a start was rejected while a session is running
C1_Witness ==
    /\ isRecording
    /\ lastCall.op = "startRecording"
    /\ lastCall.error = "Recording already in progress"

\* C2: a stopRecording issued while the controller is idle returns the error
\* NotRecording, emits no event and changes nothing; in particular a stop
\* that directly follows a successful stop returns NotRecording.
C2_StopWhileIdleIsRejected ==
    [][/\ (~isRecording /\ lastCall'.op = "stopRecording")
            => /\ lastCall' = Call("stopRecording", FALSE, "No recording in progress", NoFile, 0)
               /\ emitted' = <<>>
               /\ UNCHANGED <<ctrlFields, ctrlEnv, warnings>>
       /\ (lastCall.op = "stopRecording" /\ lastCall.success
              /\ lastCall'.op = "stopRecording")
            => lastCall'.error = "No recording in progress"]_vars

\* a stop was rejected on a controller whose first session had been stopped
C2_Witness ==
    /\ ~isRecording
    /\ lastCall.op = "stopRecording"
    /\ lastCall.error = "No recording in progress"
    /\ sessions >= 1
    /\ stopSignals[1] = 1

\* C3: whatever the timing of the timer callbacks, a session has emitted
\* exactly one Warning once its elapsed time has reached 4200 s and exactly
\* one Critical once it has reached 5400 s, and none before.
C3_EachThresholdOnceUnderAnyTiming ==
    (lastCall.op = "tick" /\ lastCall.success)
        => /\ warnings.warning = (IF lastCall.duration >= WarningAt THEN 1 ELSE 0)
           /\ warnings.critical = (IF lastCall.duration >= CriticalAt THEN 1 ELSE 0)

\* C4: when every timer callback runs at the instant it is due, the callbacks
\* fall on the whole seconds of the session, the one at 4200 s emits the only
\* Warning, the one at 5400 s emits the only Critical, and no other callback
\* (4199 s and 4201 s included) emits either.
C4_OnTimeTicksWarnOnce ==
    (lastCall.op = "tick" /\ lastCall.success)
        => /\ now - startTime = lastCall.duration * TicksPerSecond
           /\ CountLevel(emitted, "warning")
                = (IF lastCall.duration = WarningAt THEN 1 ELSE 0)
           /\ CountLevel(emitted, "critical")
                = (IF lastCall.duration = CriticalAt THEN 1 ELSE 0)
           /\ warnings.warning = (IF lastCall.duration >= WarningAt THEN 1 ELSE 0)
           /\ warnings.critical = (IF lastCall.duration >= CriticalAt THEN 1 ELSE 0)

\* a late callback has passed 4200 s without a Warning
C3_WarningSkipped ==
    /\ lastCall.op = "tick"
    /\ lastCall.duration > WarningAt
    /\ warnings.warning = 0

\* the callback at 5400 s has emitted the Critical, after the one Warning
C4_Witness ==
    /\ lastCall.op = "tick"
    /\ lastCall.duration = CriticalAt
    /\ CountLevel(emitted, "critical") = 1
    /\ warnings = [warning |-> 1, critical |-> 1]

(* ------------------------- pipeline: properties ------------------------ *)

\* the place of a stage in the order Transcribing, AwaitingSpeakerNames,
\* Analyzing, Persisting, Complete
StageRank(stage) ==
    CASE stage = "Transcribing" -> 1
      [] stage = "AwaitingSpeakerNames" -> 2
      [] stage = "Analyzing" -> 3
      [] stage = "Persisting" -> 4
      [] stage = "Complete" -> 5
      [] OTHER -> 6

Distinct(names) == \A i, j \in DOMAIN names : i # j => names[i] # names[j]

\* C5: whatever the pipeline events and the observer's actions, the stage of
\* a mounted run never moves backwards in the order Transcribing,
\* AwaitingSpeakerNames, Analyzing, Persisting, Complete, and a run that is
\* Failed stays Failed.
C5_StageAdvancesAndFailedIsTerminal ==
    [][\A r \in DOMAIN runs :
          (runs[r].mounted /\ runs'[r].mounted)
            => IF Stage(runs[r]) = "Failed"
               THEN Stage(runs'[r]) = "Failed"
               ELSE StageRank(Stage(runs'[r])) >= StageRank(Stage(runs[r]))]_vars

\* C6: no run makes more than one database.saveMeeting call or more than one
\* files.deleteAudio call, and a run that has reached Complete has made
\* exactly one database.saveMeeting call.
C6_OneSaveAtMostOneDelete ==
    \A r \in DOMAIN runs :
        /\ runs[r].calls.saveMeeting <= 1
        /\ runs[r].calls.deleteAudio <= 1
        /\ (Stage(runs[r]) = "Complete" \/ runs[r].pc \in {"timeout", "done"})
             => runs[r].calls.saveMeeting = 1

\* a run is Complete after one save and one deletion
C6_Witness ==
    \E r \in DOMAIN runs :
        /\ Stage(runs[r]) = "Complete"
        /\ runs[r].calls.saveMeeting = 1
        /\ runs[r].calls.deleteAudio = 1

\* C7: the names of a run that left AwaitingSpeakerNames through the Confirm
\* Speakers button, as passed to the analysis and as put into the meeting's
\* participants, are pairwise distinct and none of them is empty.
C7_ConfirmedNamesDistinctAndNonEmpty ==
    \A r \in DOMAIN runs :
        runs[r].namingVia = "confirm"
          => /\ Distinct(runs[r].analyzeArgs.participants)
             /\ Distinct(runs[r].meeting.participants)
             /\ \A i \in DOMAIN runs[r].analyzeArgs.participants :
                   Trim(runs[r].analyzeArgs.participants[i]) # ""

\* a confirmed submission gave two speakers the same name
C7_DuplicateNameAccepted ==
    \E r \in DOMAIN runs :
        /\ runs[r].namingVia = "confirm"
        /\ runs[r].pc = "analyzeMeeting"
        /\ ~Distinct(runs[r].analyzeArgs.participants)

\* C8: when transcription.processAudio resolves with no speakers, the run
\* goes from Transcribing to Analyzing.
C8_NoSpeakersGoesToAnalyzing ==
    [][\A r \in DOMAIN runs :
          (/\ runs[r].pc = "processAudio"
           /\ Stage(runs[r]) = "Transcribing"
           /\ runs'[r].transcriptionResult.present
           /\ Len(runs'[r].transcriptionResult.speakers) = 0)
            => Stage(runs'[r]) = "Analyzing"]_vars

\* a transcription without speakers left the run Failed, no analysis called
C8_NoSpeakersFailed ==
    \E r \in DOMAIN runs :
        /\ runs[r].transcriptionResult.present
        /\ Len(runs[r].transcriptionResult.speakers) = 0
        /\ Stage(runs[r]) = "Failed"
        /\ runs[r].calls.analyzeMeeting = 0

\* C9: when transcription.processAudio resolves with one or more speakers
\* the run becomes AwaitingSpeakerNames without a call of ai.analyzeMeeting;
\* from then on, unless it is cancelled, it stays AwaitingSpeakerNames and
\* makes no such call in any step other than a confirmation of names or a
\* skip, and that step makes the call and moves the run to Analyzing.
C9_WaitsForNamesOrSkip ==
    [][\A r \in DOMAIN runs :
          /\ (/\ runs[r].pc = "processAudio"
               /\ Stage(runs[r]) = "Transcribing"
               /\ runs'[r].transcriptionResult.present
               /\ Len(runs'[r].transcriptionResult.speakers) >= 1)
                => /\ Stage(runs'[r]) = "AwaitingSpeakerNames"
                   /\ runs'[r].calls.analyzeMeeting = 0
          /\ Stage(runs[r]) = "AwaitingSpeakerNames"
                => IF runs'[r].namingVia = runs[r].namingVia
                   THEN /\ Stage(runs'[r]) \in {"AwaitingSpeakerNames", "Unmounted"}
                        /\ runs'[r].calls.analyzeMeeting = runs[r].calls.analyzeMeeting
                   ELSE /\ runs'[r].namingVia \in {"confirm", "skip"}
                        /\ Stage(runs'[r]) = "Analyzing"
                        /\ runs'[r].pc = "analyzeMeeting"
                        /\ runs'[r].calls.analyzeMeeting
                             = runs[r].calls.analyzeMeeting + 1]_vars

\* a run with speakers is Analyzing after the observer confirmed names
C9_Witness ==
    \E r \in DOMAIN runs :
        /\ runs[r].namingVia = "confirm"
        /\ Len(runs[r].transcriptionResult.speakers) >= 1
        /\ Stage(runs[r]) = "Analyzing"
        /\ runs[r].calls.analyzeMeeting = 1

\* C10: a run cancelled when it was Complete has made no database.saveMeeting
\* call and no files.deleteAudio call since.
C10_CancelAfterCompleteCallsNothing ==
    \A r \in DOMAIN runs :
        runs[r].cancelledAt = "Complete"
          => /\ runs[r].calls.saveMeeting = runs[r].callsAtCancel.saveMeeting
             /\ runs[r].calls.deleteAudio = runs[r].callsAtCancel.deleteAudio

\* a run was cancelled when it was Complete, and its timer has fired since
C10_Witness ==
    \E r \in DOMAIN runs :
        /\ runs[r].cancelledAt = "Complete"
        /\ runs[r].pc = "done"

(* ------------------------ end to end: properties ---------------------- *)

\* the transcription of run resolves in this step with the nine-word text
BudgetTranscribed(run, next) ==
    /\ run.pc = "processAudio"
    /\ Stage(run) = "Transcribing"
    /\ next.transcriptionResult.present
    /\ next.transcriptionResult.transcript = 1

ShortSentences(t) ==
    SumOver([g \in DOMAIN t.groups |->
               IF Kept(t.groups[g].sentence) /\ WordsOf(t.groups[g].sentence) < 15
               THEN t.groups[g].count ELSE 0], 1)

\* the estimate as a function of the number of words, of indicator words, of
\* kept sentences and of kept sentences with fewer than 15 words
Reference(totalWords, indicatorCount, kept, short) ==
    LET base == IF 20 * indicatorCount > 3 * totalWords THEN 3
                ELSE IF 25 * indicatorCount > 2 * totalWords THEN 2
                ELSE 1
    IN  Min(IF kept > 5 /\ 5 * short > 3 * kept THEN Max(base, 2) ELSE base, 4)

\* C12: a transcript of at most 100 words, whatever its indicator words and
\* its sentences, is given exactly one speaker.
C12_AtMost100WordsOneSpeaker ==
    (diarized # <<>> /\ WordCount(transcript) <= 100) => Len(diarized) = 1

\* a transcript of at most 100 words was given more than one speaker
C12_ShortTranscriptManySpeakers ==
    /\ diarized # <<>>
    /\ WordCount(transcript) <= 100
    /\ Len(diarized) > 1

\* C13: every transcript is given between 1 and 4 speakers, as many as the
\* estimate says, and their ids are pairwise distinct.
C13_OneToFourDistinctSpeakers ==
    diarized # <<>>
      => /\ Len(diarized) \in 1..4
         /\ Len(diarized) = NumSpeakers(transcript)
         /\ \A i, j \in DOMAIN diarized : i # j => diarized[i].id # diarized[j].id

\* a transcript of more than 100 words was given three speakers
C13_Witness ==
    /\ TotalWords(transcript) > 100
    /\ Len(diarized) = 3
    /\ diarized[1].id # diarized[3].id

\* C14: a transcript of more than 100 words is given the number of speakers
\* that the reference function makes of its number of words, of indicator
\* words, of kept sentences and of kept sentences with fewer than 15 words.
C14_EstimateIsReference ==
    (diarized # <<>> /\ WordCount(transcript) > 100)
      => Len(diarized) = Reference(WordCount(transcript), IndicatorCount(transcript),
                                   KeptCount(transcript), ShortSentences(transcript))

\* a transcript without a blank at either end, of more than 100 words in
\* short sentences, was given one speaker
C14_ShortSentencesMissed ==
    /\ diarized # <<>>
    /\ ~transcript.lead /\ ~transcript.trail
    /\ WordCount(transcript) > 100
    /\ KeptCount(transcript) > 5
    /\ ShortSentences(transcript) = KeptCount(transcript)
    /\ Len(diarized) = 1

(* ------------------ claims about a session's end ----------------------- *)

\* the events of the periodic emitter among evs
TickEvents(evs) ==
    {i \in 1..Len(evs) : evs[i].type \in {"recording:statusUpdate",
                                           "recording:timeWarning"}}

\* C15: a successful stopRecording leaves the controller not recording with
\* its timer cleared, and returns the file name the session's startRecording
\* allocated and the whole seconds since that start; a controller that is not
\* recording emits no statusUpdate and no timeWarning, and only a successful
\* startRecording makes it record again
C15_SuccessfulStopEndsSession ==
    [][/\ (isRecording /\ lastCall'.op = "stopRecording" /\ lastCall'.success)
           => /\ ~isRecording'
              /\ statusInterval' = Null
              /\ currentFileName # NoFile
              /\ lastCall'.fileName = currentFileName
              /\ lastCall'.duration = ElapsedSeconds(now, startTime)
       /\ ~isRecording => TickEvents(emitted') = {}
       /\ (~isRecording /\ isRecording')
           => /\ lastCall'.op = "startRecording" /\ lastCall'.success
              /\ currentFileName' = FileNameAt(now)
              /\ startTime' = now
              /\ audioFile' = sessions'
       /\ (isRecording /\ isRecording')
           => UNCHANGED <<currentFileName, startTime>>]_vars

\* C15 witness: a session of at least a second was stopped successfully
C15_Witness ==
    /\ lastCall.op = "stopRecording" /\ lastCall.success
    /\ lastCall.duration >= 1
    /\ ~isRecording /\ statusInterval = Null

\* C16: whenever the controller is not recording, getRecordingStatus returns
\* the zeroed snapshot: isRecording false, duration 0, audioLevel 0 and no
\* file name
C16_IdleStatusIsZeroed ==
    ~isRecording =>
        \A lvl \in AudioLevels :
            GetRecordingStatus(lvl) = [isRecording |-> FALSE, duration |-> 0,
                                       audioLevel |-> 0, fileName |-> NoFile]

\* C16: a startRecording that threw after naming its file has returned and
\* the idle controller's status carries that file name
C16_FileNameAfterFailedStart ==
    /\ ~isRecording
    /\ lastCall.op = "startRecording" /\ ~lastCall.success
    /\ lastCall.error \in StartFailures
    /\ \A lvl \in AudioLevels : GetRecordingStatus(lvl).fileName # NoFile

(* ------------------ claims about pause and resume ---------------------- *)

\* what pauseForUserChoice and resumeStatusUpdates must leave alone: the
\* flag, the start time, the file name, the subprocess and the stream; and a
\* resume on a controller that is not recording leaves the timer as it was
PauseResumeFrame ==
    /\ lastCall'.op \in {"pauseForUserChoice", "resumeStatusUpdates"}
        => UNCHANGED <<isRecording, startTime, currentFileName, recording,
                       audioFile>>
    /\ lastCall'.op = "pauseForUserChoice" => statusInterval' = Null
    /\ (lastCall'.op = "resumeStatusUpdates" /\ ~isRecording)
        => statusInterval' = Null

\* C17 as stated: pause and resume leave the recording state alone, a resume
\* on a controller that is not recording does not arm the timer, and from a
\* pause to the next resume no statusUpdate and no timeWarning is emitted
C17_NoEventsUntilResume ==
    [][PauseResumeFrame /\ (paused => TickEvents(emitted') = {})]_vars

\* C17 as the code has it: pause and resume leave the recording state alone,
\* a resume on a controller that is not recording does not arm the timer, and
\* after a pause the timer stays cleared and no statusUpdate and no
\* timeWarning is emitted until a resume while recording or a successful
\* startRecording arms it again
C17_NoEventsUntilResumeOrStart ==
    [][/\ PauseResumeFrame
       /\ (paused /\ statusInterval = Null) => TickEvents(emitted') = {}
       /\ (paused /\ statusInterval = Null /\ statusInterval' # Null)
           => \/ lastCall'.op = "resumeStatusUpdates" /\ isRecording
              \/ lastCall'.op = "startRecording" /\ lastCall'.success
                 /\ ~isRecording]_vars

\* C17 witness: a recording controller has been paused for longer than the
\* period of its timer
C17_Witness ==
    /\ paused /\ isRecording /\ statusInterval = Null
    /\ lastCall.op = "clock"
    /\ ElapsedSeconds(now, startTime) >= 2

(* --------------------- claims about shutdown --------------------------- *)

\* C18: after destroy the controller is not recording and holds no
\* subprocess, no open stream and no timer, and a destroy that follows a
\* destroy changes no field and emits nothing; a destroy whose stopRecording
\* threw, which leaves the controller recording, is left out
C18_ShutdownReleasesAndIsIdempotent ==
    [][/\ lastCall'.op = "destroy" => statusInterval' = Null
       /\ (lastCall'.op = "destroy" /\ ~isRecording')
           => recording' = Null /\ audioFile' = Null
       /\ (lastCall.op = "destroy" /\ lastCall'.op = "destroy" /\ ~isRecording)
           => UNCHANGED <<ctrlFields, ctrlEnv>> /\ emitted' = <<>>]_vars

\* C18: destroy has returned on a controller that is not recording and that
\* still holds the write stream a failed startRecording opened
C18_StreamOpenAfterShutdown ==
    /\ lastCall.op = "destroy"
    /\ ~isRecording
    /\ audioFile # Null
    /\ streamEnds[audioFile] = 0

(* ---------------------- claims about failures -------------------------- *)

\* the recording:error events among evs
ErrorEvents(evs) == {i \in 1..Len(evs) : evs[i].type = "recording:error"}

\* C19: the stream's 'error' handler, run while the controller is recording,
\* leaves it not recording with the timer cleared and emits recording:error;
\* and a controller that is not recording records again only through a
\* successful startRecording
C19_StreamErrorEndsSession ==
    [][/\ (lastCall'.op = "streamError" /\ isRecording)
           => /\ ~isRecording'
              /\ statusInterval' = Null
              /\ ErrorEvents(emitted') # {}
       /\ (~isRecording /\ isRecording')
           => lastCall'.op = "startRecording" /\ lastCall'.success]_vars

\* C19: the 'error' handler has returned, its stopRecording having thrown,
\* and the controller is still recording with its timer armed
C19_StillRecordingAfterStreamError ==
    /\ lastCall.op = "streamError"
    /\ ErrorEvents(emitted) # {}
    /\ isRecording
    /\ statusInterval # Null

\* C20: a startRecording that failed while creating the output file or
\* spawning the capture subprocess has emitted recording:error besides
\* returning the failure
C20_FailedStartEmitsError ==
    (/\ lastCall.op = "startRecording"
     /\ ~lastCall.success
     /\ lastCall.error \in StartFailures \ {"none"})
        => ErrorEvents(emitted) # {}

\* C20: record.record threw inside startRecording, which returned the
\* failure and emitted nothing
C20_FailedStartWithoutEvent ==
    /\ lastCall.op = "startRecording"
    /\ ~lastCall.success
    /\ lastCall.error = "record"
    /\ emitted = <<>>

\* C21: a startRecording that failed after the backend was found has left
\* the controller as stopRecording leaves it: not recording, no subprocess,
\* no write stream, no file name and no timer
C21_FailedStartLeavesStoppedState ==
    (/\ lastCall.op = "startRecording"
     /\ ~lastCall.success
     /\ lastCall.error \in StartFailures \ {"none"})
        => /\ ~isRecording
           /\ recording = Null
           /\ audioFile = Null
           /\ currentFileName = NoFile
           /\ statusInterval = Null

\* C21: stream().pipe threw inside startRecording, which returned the
\* failure with the subprocess, the write stream and the file name in place
C21_FailedStartKeepsResources ==
    /\ lastCall.op = "startRecording"
    /\ ~lastCall.success
    /\ lastCall.error = "pipe"
    /\ ~isRecording
    /\ recording # Null /\ stopSignals[recording] = 0
    /\ audioFile # Null /\ streamEnds[audioFile] = 0
    /\ currentFileName # NoFile

(* ------------------ claims about saving and deleting ------------------- *)

\* files.deleteAudio of run r settles in this step
DeleteSettlesFor(r) ==
    /\ r \in DOMAIN runs
    /\ runs[r].pc = "deleteAudio"
    /\ runs'[r].pc # "deleteAudio"

\* C22: when files.deleteAudio settles, whatever its outcome, the saved
\* meeting stays in the database, the run's error stays unset, the run shows
\* the complete step if it is still mounted and its timer is set with the
\* saved meeting; and the timer's callback hands that meeting to onComplete
C22_FailedDeletionStillCompletes ==
    [][\A r \in 1..MaxRuns :
          /\ DeleteSettlesFor(r)
              => /\ database' = database
                 /\ runs'[r].error = ""
                 /\ runs'[r].pc = "timeout"
                 /\ runs'[r].mounted => Stage(runs'[r]) = "Complete"
                 /\ runs'[r].savedMeeting.present
                 /\ \E i \in DOMAIN database : database[i] = runs'[r].savedMeeting
          /\ (r \in DOMAIN runs /\ runs[r].pc = "timeout" /\ runs'[r].pc # "timeout")
              => /\ runs'[r].pc = "done"
                 /\ runs'[r].calls.onComplete = runs[r].calls.onComplete + 1]_vars

\* C22 witness: the deletion of a mounted run did not succeed and the run
\* shows the complete step, its meeting saved
C22_Witness ==
    \E r \in DOMAIN runs :
        /\ runs[r].deleteOutcome \in {"failed", "rejects"}
        /\ runs[r].mounted
        /\ Stage(runs[r]) = "Complete"
        /\ runs[r].pc = "timeout"
        /\ Len(database) = 1

\* the meetings in db that were saved for run
SavedFor(run, db) == {i \in DOMAIN db : db[i].transcript = run.audioFilePath}

\* C23: when database.saveMeeting rejects, the run's function chain returns
\* without calling files.deleteAudio and a mounted run shows the error; a run
\* calls database.saveMeeting at most once, and files.deleteAudio has been
\* called only for a run whose meeting is in the database
C23_NoDeletionWithoutSave ==
    [][\A r \in 1..MaxRuns :
          /\ (/\ r \in DOMAIN runs
              /\ runs[r].pc = "saveMeeting"
              /\ runs'[r].pc # "saveMeeting"
              /\ database' = database)
              => /\ runs'[r].pc = "idle"
                 /\ runs'[r].calls.deleteAudio = 0
                 /\ runs'[r].mounted => Stage(runs'[r]) = "Failed"
          /\ r \in DOMAIN runs'
              => /\ runs'[r].calls.saveMeeting <= 1
                 /\ runs'[r].calls.deleteAudio >= 1
                    => SavedFor(runs'[r], database') # {}]_vars

\* C23 witness: with the cleanup option checked, the save of a mounted run
\* was rejected; the run shows the error and nothing was deleted
C23_Witness ==
    \E r \in DOMAIN runs :
        /\ runs[r].mounted
        /\ runs[r].currentStep = "saving"
        /\ Stage(runs[r]) = "Failed"
        /\ runs[r].deleteRecording
        /\ runs[r].calls.saveMeeting = 1
        /\ runs[r].calls.deleteAudio = 0
        /\ SavedFor(runs[r], database) = {}

C25_NoCallsAfterCancel ==
    \A r \in DOMAIN runs :
        runs[r].cancelledAt # ""
          => /\ runs[r].calls.analyzeMeeting = runs[r].callsAtCancel.analyzeMeeting
             /\ runs[r].calls.deleteAudio = runs[r].callsAtCancel.deleteAudio

\* C25: a run cancelled while ai.analyzeMeeting was awaited has saved its
\* meeting and called files.deleteAudio after the cancellation
C25_DeletedAfterCancel ==
    \E r \in DOMAIN runs :
        /\ runs[r].cancelledAt = "Analyzing"
        /\ runs[r].callsAtCancel.saveMeeting = 0
        /\ runs[r].callsAtCancel.deleteAudio = 0
        /\ runs[r].calls.saveMeeting = 1
        /\ runs[r].calls.deleteAudio = 1

(* ----------------------- claims about completion ----------------------- *)

Malformed(response) == response \in {"prose", "brokenObject"}

\* C27: a run whose analysis request was answered without a parseable JSON
\* object has made no database.saveMeeting call, and shows the error if it
\* is still mounted
C27_MalformedResponseFailsRun ==
    \A r \in DOMAIN runs :
        Malformed(runs[r].providerResponse)
          => /\ runs[r].calls.saveMeeting = 0
             /\ runs[r].mounted => Stage(runs[r]) = "Failed"

\* C27: the provider answered in prose, and the meeting was saved under the
\* fallback title
C27_FallbackMeetingSaved ==
    \E r \in DOMAIN runs :
        /\ runs[r].providerResponse = "prose"
        /\ runs[r].calls.saveMeeting = 1
        /\ \E i \in DOMAIN database : database[i].title = FallbackTitle

(* ---------------------- claims about file names ------------------------ *)

\* C28: a session that is started after another was stopped is given a file
\* name other than the one stopRecording returned for that session
C28_SessionsGetDistinctFiles ==
    [][(/\ lastCall.op = "stopRecording" /\ lastCall.success
        /\ lastCall'.op = "startRecording" /\ lastCall'.success)
           => lastCall'.fileName # lastCall.fileName]_vars

\* C28: within the first second of the clock a first session was started and
\* stopped and a second one is recording: both were named after that second
C28_SameNameTwice ==
    /\ now < TicksPerSecond
    /\ streamEnds[1] = 1
    /\ isRecording
    /\ audioFile = 2
    /\ currentFileName = FileNameAt(0)

(* ------------------------- claims about retry -------------------------- *)

\* C29: the Retry button of a failed run issues a new
\* transcription.processAudio call, which the run then awaits
C29_RetryTranscribesAgain ==
    [][\A r \in 1..MaxRuns :
          (/\ r \in DOMAIN runs
           /\ runs[r].mounted /\ runs'[r].mounted
           /\ runs[r].error # "" /\ runs'[r].error = "")
              => /\ runs'[r].calls.processAudio = runs[r].calls.processAudio + 1
                 /\ runs'[r].pc = "processAudio"]_vars

\* C29: after Retry the run shows the progress of the transcription step
\* with no error, while no call is awaited and only the one
\* transcription.processAudio call of the mount was ever made
C29_IdleAfterRetry ==
    \E r \in DOMAIN runs :
        /\ runs[r].mounted
        /\ Stage(runs[r]) = "Transcribing"
        /\ Screen(runs[r].view) = "progress"
        /\ runs[r].pc = "idle"
        /\ runs[r].calls.processAudio = 1

(* ----------------------- claims about teardown ------------------------- *)

\* C30: however stopRecording, destroy, the timer callback and the stream
\* 'error' handlers follow one another, the subprocess of a session gets
\* recording.stop() at most once and its write stream audioFile.end() at
\* most once; and the timer callback changes neither handle and makes
\* neither call
C30_TeardownAtMostOnce ==
    [][/\ \A s \in SessionIds : stopSignals'[s] <= 1 /\ streamEnds'[s] <= 1
       /\ lastCall'.op = "tick"
           => UNCHANGED <<recording, audioFile, stopSignals, streamEnds>>]_vars

\* C30 witness: the first session was torn down, its stream 'error' handler
\* has run and destroy was called, all within the second in which a status
\* update was emitted
C30_Witness ==
    /\ lastCall.op = "destroy"
    /\ 1 \notin handlers
    /\ stopSignals[1] = 1
    /\ streamEnds[1] = 1
    /\ now >= Interval

(* ------------------------ snippets: properties ------------------------- *)

\* the snippet files that speakers of audio file a point to
ExemplarsOf(a) ==
    {speakersOf[a][k].sampleAudio : k \in DOMAIN speakersOf[a]} \ {0}

\* C31: a call made for one audio file never overwrites or deletes a snippet
\* file that was cut from another audio file and that a speaker of that
\* other file points to
C31_RunsKeepTheirOwnSnippets ==
    [][\A a \in AudioIds, k \in SnippetIds :
          /\ fileCall'.audio # a
          /\ k \in ExemplarsOf(a)
          /\ snippetFiles[k] = a
          => snippetFiles'[k] = a]_vars

\* C31 counterexample reached: the first speaker of audio file 1 points to
\* speaker_1_sample.wav, which the call for audio file 2 has just cut from
\* audio file 2 or deleted
C31_SnippetTakenByOtherRun ==
    /\ fileCall.audio = 2
    /\ 1 \in ExemplarsOf(1)
    /\ snippetFiles[1] # 1

\* C32: processAudio returns numSpeakers speakers with the ids 1..n; speaker
\* k has the path of its snippet when the directory was there and extraction
\* k did not fail, and '' otherwise; sox is asked once per speaker, in order,
\* for SnippetDuration seconds from second 10 + 30 * (k - 1) of the file
C32_FailedSnippetsLeaveOthers ==
    fileCall.op = "processAudio" =>
        LET a == fileCall.audio
            n == fileCall.numSpeakers
        IN  /\ Len(speakersOf[a]) = n
            /\ \A k \in 1..n :
                  /\ speakersOf[a][k].id = k
                  /\ speakersOf[a][k].sampleAudio =
                        IF fileCall.mkdir /\ k \notin fileCall.failed THEN k ELSE 0
            /\ Len(fileCall.requests) = IF fileCall.mkdir THEN n ELSE 0
            /\ \A k \in DOMAIN fileCall.requests :
                  /\ fileCall.requests[k].input = a
                  /\ fileCall.requests[k].output = k
                  /\ fileCall.requests[k].start = 10 + 30 * (k - 1)
                  /\ fileCall.requests[k].duration = 5

\* C32 witness: of two speakers the extraction of the first failed and the
\* second has its snippet
C32_Witness ==
    /\ fileCall.op = "processAudio"
    /\ fileCall.numSpeakers = 2
    /\ fileCall.failed = {1}
    /\ speakersOf[fileCall.audio][1].sampleAudio = 0
    /\ speakersOf[fileCall.audio][2].sampleAudio = 2

(* ------------------- controller: output file failures ------------------ *)

\* C33: an 'error' of the output file stream while the controller is
\* recording leaves it not recording, with the subprocess stopped and the
\* timer cleared
C33_FileFailureEndsSession ==
    [][(lastCall'.op = "audioFileError" /\ isRecording)
          => /\ ~isRecording'
             /\ recording' = Null
             /\ statusInterval' = Null]_vars

\* C33 counterexample reached: the output file stream has failed and the
\* controller is still recording, its subprocess not stopped and its timer
\* armed
C33_RecordingAfterFileFailure ==
    /\ lastCall.op = "audioFileError"
    /\ isRecording
    /\ recording # Null
    /\ stopSignals[recording] = 0
    /\ statusInterval # Null

(* --------------------- pipeline: the analysis call --------------------- *)

\* C34: a step in which a mounted run's currentStep becomes 'ai-analysis',
\* after a confirmation, a skip or a transcription without speakers, makes
\* the run's one call of ai.analyzeMeeting, with the transcript and duration
\* of the run's transcription result and the speakers' names as participants,
\* and leaves the run Analyzing
C34_AnalyzingCallsAnalysisOnce ==
    [][\A r \in DOMAIN runs :
          (/\ runs[r].mounted
           /\ runs'[r].mounted
           /\ runs[r].currentStep # "ai-analysis"
           /\ runs'[r].currentStep = "ai-analysis")
            => /\ Stage(runs'[r]) = "Analyzing"
               /\ runs[r].calls.analyzeMeeting = 0
               /\ runs'[r].calls.analyzeMeeting = 1
               /\ runs'[r].pc = "analyzeMeeting"
               /\ runs'[r].analyzeArgs.transcript = runs'[r].transcriptionResult.transcript
               /\ runs'[r].analyzeArgs.duration = runs'[r].transcriptionResult.duration
               /\ runs'[r].analyzeArgs.participants =
                     [i \in DOMAIN runs'[r].speakers |-> runs'[r].speakers[i].name]
               /\ Len(runs'[r].speakers) = Len(runs'[r].transcriptionResult.speakers)]_vars

\* C34 counterexample reached: startAIAnalysis([]) has set the step
\* 'ai-analysis' for a transcription without speakers and returned without
\* calling ai.analyzeMeeting
C34_AnalysisStepWithoutCall ==
    \E r \in DOMAIN runs :
        /\ runs[r].mounted
        /\ runs[r].currentStep = "ai-analysis"
        /\ runs[r].pc = "idle"
        /\ runs[r].error # ""
        /\ runs[r].transcriptionResult.speakers = <<>>
        /\ runs[r].calls.analyzeMeeting = 0

(* ------------------- pipeline: the save always settles ----------------- *)

\* C35: a run that awaits database.saveMeeting is Persisting and eventually
\* Complete or Failed (or gone from the page)
C35_SaveAlwaysSettles ==
    \A r \in 1..(MaxRuns + 1) :
        (r \in DOMAIN runs /\ runs[r].pc = "saveMeeting")
            ~> (r \in DOMAIN runs /\ Stage(runs[r]) \in {"Complete", "Failed", "Unmounted"})

\* C35 counterexample reached: the meeting of a run is in the database, an
\* insert of one of its action items has failed, and the run is Persisting
\* with a call of database.saveMeeting that nothing will settle
C35_SaveNeverSettles ==
    \E r \in DOMAIN runs :
        /\ runs[r].pc = "neverSettles"
        /\ Stage(runs[r]) = "Persisting"
        /\ \E i \in DOMAIN database : database[i] = runs[r].meeting

(* ----------------------- controller: the timers ------------------------ *)

\* C36: at most one interval timer is alive, it is the one statusInterval
\* holds, and one is alive only while the controller is recording
C36_AtMostOneTimerWhileRecording ==
    /\ timers <= 1
    /\ timers = (IF statusInterval # Null THEN 1 ELSE 0)
    /\ timers > 0 => isRecording

\* C36 witness: resumeStatusUpdates has run on a recording controller after
\* the first second of the session, and one timer is alive
C36_Witness ==
    /\ lastCall.op = "resumeStatusUpdates"
    /\ isRecording
    /\ timers = 1
    /\ now >= Interval

(* ----------------- controller: errors of earlier sessions -------------- *)

\* C37: the 'error' handler of the stream of a session other than the one
\* being recorded leaves the controller recording, with its subprocess, its
\* write stream and its timer as they were
C37_LateErrorSparesNewSession ==
    [][(/\ lastCall'.op = "streamError"
        /\ isRecording
        /\ recording # Null
        /\ recording \notin (handlers \ handlers'))
          => /\ isRecording'
             /\ recording' = recording
             /\ audioFile' = audioFile
             /\ statusInterval' = statusInterval
             /\ stopSignals' = stopSignals]_vars

\* C37 counterexample reached: the first session was stopped and a second
\* one started; the 'error' handler of the first session's stream has just
\* run and stopped the second session, whose own handler has not run
C37_NewSessionStoppedByOldError ==
    /\ lastCall.op = "streamError"
    /\ Len(emitted) = 2
    /\ emitted[1].type = "recording:stopped"
    /\ sessions = 2
    /\ 1 \notin handlers
    /\ 2 \in handlers
    /\ stopSignals[1] = 1
    /\ stopSignals[2] = 1
    /\ ~isRecording

(* -------------------- pipeline: the cleanup choice --------------------- *)

\* C38: when a mounted run goes on from the analysis to saveMeeting, the
\* meeting it saves has no audio path if the deleteRecording state is true at
\* that moment and the run's audio path otherwise, and the deleteRecording
\* that decides about files.deleteAudio is that same value
C38_LastCleanupChoiceApplies ==
    [][\A r \in 1..(MaxRuns + 1) :
          (/\ r \in DOMAIN runs
           /\ runs[r].mounted
           /\ runs[r].pc = "analyzeMeeting"
           /\ runs'[r].pc = "saveMeeting")
            => /\ runs'[r].meeting.audioFilePath =
                     (IF runs[r].deleteRecording THEN NoPath ELSE runs[r].audioFilePath)
               /\ runs'[r].closure.deleteRecording = runs[r].deleteRecording]_vars

\* C38 counterexample reached: the box was unchecked while the analysis was
\* running, and the meeting being saved has no audio path and the file will
\* be deleted
C38_UncheckedDuringAnalysisIgnored ==
    \E r \in DOMAIN runs :
        /\ runs[r].mounted
        /\ runs[r].pc = "saveMeeting"
        /\ runs[r].view.currentStep = "ai-analysis"
        /\ ~runs[r].deleteRecording
        /\ runs[r].closure.deleteRecording
        /\ runs[r].meeting.audioFilePath = NoPath

(* ------------------ pipeline: completion after a cancel ---------------- *)

\* C39: a run that was cancelled has called neither onComplete nor navigate
\* since the cancellation
C39_CancelledRunNeverCompletes ==
    \A r \in DOMAIN runs :
        runs[r].cancelledAt # ""
            => /\ runs[r].calls.onComplete = runs[r].callsAtCancel.onComplete
               /\ runs[r].calls.navigate = runs[r].callsAtCancel.navigate

\* C39 counterexample reached: a run cancelled while its analysis or its
\* save was in flight has saved its meeting, and its timer has called
\* onComplete and navigate
C39_CompletedAfterCancel ==
    \E r \in DOMAIN runs :
        /\ runs[r].cancelledAt \in {"Analyzing", "Persisting"}
        /\ runs[r].callsAtCancel.onComplete = 0
        /\ runs[r].calls.onComplete = 1
        /\ runs[r].calls.navigate = 1
        /\ runs[r].pc = "done"

(* ------------------- recording page: the stopping state ---------------- *)

\* C40: when audio.stopRecording() has resolved without an audio file path,
\* the page, which shows 'Stopping Recording', eventually has isProcessing
\* false
C40_StoppingEventuallyEnds ==
    (page.isProcessing /\ page.audioFilePath = NoPath /\ ~stopPending)
        ~> ~page.isProcessing

\* C40 counterexample reached: the stop request has returned without a path,
\* no workflow is mounted for it, and the page still has isProcessing true
C40_StoppingWithNothingPending ==
    /\ ~stopPending
    /\ page.isProcessing
    /\ page.audioFilePath = NoPath
    /\ \A r \in DOMAIN runs : ~runs[r].mounted

====
